---- MODULE Spec2Model ----
(***************************************************************************)
(* RSVP reader (kearnsw/rsvp): the reading engine of the terminal          *)
(* front-end (src/bin/rsvp-tui.rs, "tui") and of the desktop front-end     *)
(* (src/main.rs, "gui"), with the files both keep under the configuration  *)
(* directory: library.json and books/<id>.txt.                             *)
(***************************************************************************)
EXTENDS Integers, Sequences, FiniteSets, TLC

VARIABLES
    fe,       \* the front-end in use: "tui" or "gui"
    app,      \* the fields of App (tui) / RSVPApp (gui); mode "Off": no process runs
    disk,     \* library.json and the books directory
    dialogs,  \* gui: file dialogs opened by OpenFile and not yet answered
    faults,   \* environment faults so far (failed writes, files touched from outside)
    tampered, \* a book file was written by something other than import
    ev,       \* the operation that produced this state, and its outcome
    shown,    \* the word last drawn at the focal column, with its ORP offset
    twin,     \* a desktop session run beside the terminal one, and its files
    hashed,   \* the hash value last taken by import_file, with the id made of it
    file_input \* tui: file_input (text) and file_input_cursor (cursor, in bytes)

vars == <<fe, app, disk, dialogs, faults, tampered, ev, shown, twin, hashed, file_input>>

----------------------------------------------------------------------------
(* Bounds of the model *)

\* Library.books never grows beyond this many entries (imports are disabled then).
MaxBooks == 2
\* The number of distinct 12-digit ids the hash of (path, time) can yield.
NumIds == 2
\* The token count of the long source file.
LongLen == 12
\* The books of the library hold at most this many words together.
MaxStoredWords == LongLen + 1
\* Environment faults per behaviour.
MaxFaults == 1
\* Rate changes are followed this many 50-wpm steps away from the default rate.
MaxRateSteps == 1
\* File dialogs open at once (gui).
MaxDialogs == 1
\* Instant::elapsed() is tracked up to this many milliseconds.
MaxElapsed == 400
\* Rates in a stored library.json outside the range the keys keep
LowRate == 30
HighRate == 2300
\* The widest padding to which the hash's hex digits are brought
MaxZeros == 16
MaxInputLen == 3
\* Chars of the longest text of a book file
MaxTextLen == 4
\* Chars of the longest word drawn
MaxWordLen == 20
\* Rate steps followed down from u32::MAX
MaxTopSteps == 2
\* The clock is observed every TimeStep milliseconds.
TimeStep == 200

(* Program constants *)
DefaultWpm == 300
MinWpm == 50
MaxWpm == 2000
WpmStep == 50
WpmShiftStep == 100
SaveEvery == 10
SkipWords == 10

\* Option<T>: None, or Some(x); a file that does not exist reads as None
None == <<>>
Some(x) == <<x>>
unwrap(o) == o[1]
Ids == 1..NumIds

Min(x, y) == IF x <= y THEN x ELSE y
Max(x, y) == IF x >= y THEN x ELSE y
\* usize::saturating_sub / u32::saturating_sub
saturating_sub(x, y) == IF x >= y THEN x - y ELSE 0

\* wpm: u32.  A u32 is held as its 32 bits read in two's complement: a value
\* below 2^31 is itself, a value v from 2^31 on is v - 2^32, so u32::MAX is -1.
\* The operands below stay away from 2^31, where a sum leaves the integers of
\* the model checker.
u32_MAX == 0 - 1
u32_lt(x, y) == IF (x < 0) = (y < 0) THEN x < y ELSE y < 0
u32_min(x, y) == IF u32_lt(y, x) THEN y ELSE x
u32_max(x, y) == IF u32_lt(x, y) THEN y ELSE x
u32_saturating_sub(x, y) == IF u32_lt(x, y) THEN 0 ELSE x - y
\* x + y, y a small increment: a build with overflow checks panics when
\* Overflows(x, y), a build without them computes wrapping_add(x, y).
Overflows(x, y) == x < 0 /\ x + y >= 0
wrapping_add(x, y) == x + y

----------------------------------------------------------------------------
(* Text *)

WhiteSpace == {" ", "\n"}

RECURSIVE Split(_, _, _)
\* str::split_whitespace over text[i..], cur the word being read
Split(text, i, cur) ==
    IF i > Len(text)
    THEN IF cur = <<>> THEN <<>> ELSE <<cur>>
    ELSE IF text[i] \in WhiteSpace
         THEN IF cur = <<>> THEN Split(text, i + 1, <<>>)
                            ELSE <<cur>> \o Split(text, i + 1, <<>>)
         ELSE Split(text, i + 1, Append(cur, text[i]))

RECURSIVE SplitSpaces(_, _, _)
\* str::split(' ') over text[i..]: a piece between any two spaces
SplitSpaces(text, i, cur) ==
    IF i > Len(text)
    THEN <<cur>>
    ELSE IF text[i] = " "
         THEN <<cur>> \o SplitSpaces(text, i + 1, <<>>)
         ELSE SplitSpaces(text, i + 1, Append(cur, text[i]))

tokenize_text_spaces(text) == SplitSpaces(text, 1, <<>>)

tokenize_text(text) == Split(text, 1, <<>>)

\* an offset of a quarter of the length
calculate_orp_quarter(word) == Len(word) \div 4

\* calculate_orp (tui): the offset by word.chars().count(); a word is the
\* sequence of its chars
tui_calculate_orp(word) ==
    LET len == Len(word) IN
    IF len <= 1 THEN 0
    ELSE IF len <= 5 THEN 1
    ELSE IF len <= 9 THEN 2
    ELSE IF len <= 13 THEN 3
    ELSE 4

\* calculate_orp (gui)
gui_calculate_orp(word) ==
    LET len == Len(word) IN
    IF len <= 1 THEN 0
    ELSE IF len <= 5 THEN 1
    ELSE IF len <= 9 THEN 2
    ELSE IF len <= 13 THEN 3
    ELSE 4

calculate_orp(f, word) ==
    IF f = "tui" THEN tui_calculate_orp(word) ELSE gui_calculate_orp(word)

\* A u64 is held as its 16 hex digits, the most significant first
HashDigits == 16
IdLen == 12
HexDigit == <<"0", "1", "2", "3", "4", "5", "6", "7",
              "8", "9", "a", "b", "c", "d", "e", "f">>

RECURSIVE StripZeros(_)
StripZeros(digits) ==
    IF digits # <<>> /\ Head(digits) = 0 THEN StripZeros(Tail(digits)) ELSE digits

\* format!("{:x}", hash): the lowercase hex digits with no leading zeros, "0"
\* for the hash 0
LowerHex(hash) ==
    LET digits == IF StripZeros(hash) = <<>> THEN <<0>> ELSE StripZeros(hash)
    IN [i \in 1..Len(digits) |-> HexDigit[digits[i] + 1]]

\* &s[..12] panics when 12 is past the end of the string
slice_panics(str, n) == n > Len(str)

\* format!("{:x}", hasher.finish())[..12].to_string(); None: the slice panics
make_book_id(hash) ==
    IF slice_panics(LowerHex(hash), IdLen)
    THEN None
    ELSE Some(SubSeq(LowerHex(hash), 1, IdLen))

\* A String is held as its chars; a char takes 1 to 4 bytes in UTF-8
len_utf8(c) ==
    CASE c = "a" -> 1
      [] c = "U+00E9" -> 2
      [] c = "U+20AC" -> 3

\* String::len: the length in bytes
RECURSIVE ByteLen(_)
ByteLen(text) ==
    IF text = <<>> THEN 0 ELSE len_utf8(Head(text)) + ByteLen(Tail(text))

\* str::is_char_boundary: idx is the start of a char or the end of the string
is_char_boundary(text, idx) ==
    \E k \in 0..Len(text) : ByteLen(SubSeq(text, 1, k)) = idx

\* The number of chars that lie before the boundary idx
CharsBefore(text, idx) ==
    CHOOSE k \in 0..Len(text) : ByteLen(SubSeq(text, 1, k)) = idx

\* String::insert asserts that idx is a char boundary
insert_panics(text, idx) == ~is_char_boundary(text, idx)

insert(text, idx, c) ==
    SubSeq(text, 1, CharsBefore(text, idx)) \o <<c>>
        \o SubSeq(text, CharsBefore(text, idx) + 1, Len(text))

\* String::remove slices the string from idx and takes the first char: it
\* panics off a char boundary and at the end of the string
remove_panics(text, idx) == ~is_char_boundary(text, idx) \/ idx >= ByteLen(text)

remove(text, idx) ==
    SubSeq(text, 1, CharsBefore(text, idx))
        \o SubSeq(text, CharsBefore(text, idx) + 2, Len(text))

\* handle_file_input_keys on the keys that edit the field; panics: the String
\* operation of the key panics on this field
key_panics(input, key) ==
    CASE key.code = "Char" -> insert_panics(input.text, input.cursor)
      [] key.code = "Backspace" ->
            input.cursor > 0 /\ remove_panics(input.text, input.cursor - 1)
      [] key.code = "Delete" ->
            input.cursor < ByteLen(input.text) /\ remove_panics(input.text, input.cursor)
      [] OTHER -> FALSE

file_input_key(input, key) ==
    CASE key.code = "Char" ->
            [text |-> insert(input.text, input.cursor, key.c),
             cursor |-> input.cursor + 1]
      [] key.code = "Backspace" ->
            IF input.cursor > 0
            THEN [text |-> remove(input.text, input.cursor - 1), cursor |-> input.cursor - 1]
            ELSE input
      [] key.code = "Delete" ->
            IF input.cursor < ByteLen(input.text)
            THEN [input EXCEPT !.text = remove(input.text, input.cursor)]
            ELSE input
      [] key.code = "Left" ->
            [input EXCEPT !.cursor = IF input.cursor = 0 THEN 0 ELSE input.cursor - 1]
      [] key.code = "Right" ->
            [input EXCEPT !.cursor = IF input.cursor + 1 < ByteLen(input.text)
                                     THEN input.cursor + 1 ELSE ByteLen(input.text)]
      [] key.code = "Home" -> [input EXCEPT !.cursor = 0]
      [] key.code = "End" -> [input EXCEPT !.cursor = ByteLen(input.text)]

RECURSIVE WordsText(_)
\* a text of n one-letter words, separated by single spaces
WordsText(n) == IF n = 0 THEN <<>>
                ELSE IF n = 1 THEN <<"a">>
                ELSE WordsText(n - 1) \o <<" ", "a">>

\* The files outside the configuration directory that a path can name
\* (two.txt in the specification of repeated imports alone):
\* fs::read_to_string(path) yields the text, or fails for "missing".
Paths == {"empty.txt", "blank.txt", "one.txt", "long.txt", "missing.txt"}
SourceFile(path) ==
    CASE path = "empty.txt" -> Some(<<>>)
      [] path = "blank.txt" -> Some(<<" ", "\n">>)
      [] path = "one.txt"   -> Some(<<" ", "a", "b", "\n">>)
      [] path = "two.txt"   -> Some(<<"a", "\n", "b">>)
      [] path = "long.txt"  -> Some(WordsText(LongLen))
      [] OTHER              -> None

----------------------------------------------------------------------------
(* Library *)

default_library == [books |-> <<>>, last_book |-> None, wpm |-> DefaultWpm]

\* load_library that takes whatever library.json holds
load_library_any(f, d) ==
    IF d.library_file # None THEN unwrap(d.library_file).lib ELSE default_library

\* load_library: library.json of the other front-end does not parse
\* (tui needs "settings" and "original_path", gui needs "wpm").
load_library(f, d) ==
    IF d.library_file # None /\ unwrap(d.library_file).fmt = f
    THEN unwrap(d.library_file).lib
    ELSE default_library

\* save_library: the write is best effort, ok tells whether it went through.
save_library(f, d, library, ok) ==
    IF ok THEN [d EXCEPT !.library_file = Some([fmt |-> f, lib |-> library])] ELSE d

\* books.iter().position(|b| b.id == id): index of the first Book with the id, 0 if none
RECURSIVE find_from(_, _, _)
find_from(books, id, i) ==
    IF i > Len(books) THEN 0
    ELSE IF books[i].id = id THEN i
    ELSE find_from(books, id, i + 1)
find(books, id) == find_from(books, id, 1)

----------------------------------------------------------------------------
(* App / RSVPApp *)

MsPerMinute == 60000

\* App::new / RSVPApp::new before the last book is loaded.  last_advance holds
\* last_advance.elapsed() in milliseconds (last_tick in the gui).
new(f, d) ==
    LET library == load_library(f, d) IN
    [ mode            |-> "Reading",
      library         |-> library,
      words           |-> <<>>,
      word_index      |-> 0,
      current_book_id |-> None,
      is_playing      |-> FALSE,
      wpm             |-> IF f = "gui" /\ ~u32_lt(0, library.wpm) THEN DefaultWpm ELSE library.wpm,
      last_advance    |-> 0,
      library_state   |-> None,
      confirm_action  |-> None ]

\* no process is running
NoApp == [new("tui", [library_file |-> None, books |-> [i \in Ids |-> None]])
            EXCEPT !.mode = "Off"]

\* load_book that starts every Book at its first token
load_book_no_resume(f, a, d, book_id, ok) ==
    LET content == d.books[book_id] IN
    IF content = None
    THEN [app |-> a, disk |-> d, res |-> "NotFound"]
    ELSE
      LET words == tokenize_text(unwrap(content)) IN
      IF words = <<>>
      THEN [app |-> [a EXCEPT !.words = words], disk |-> d, res |-> "EmptyBook"]
      ELSE
        LET a1 == [a EXCEPT !.words = words,
                            !.word_index = 0,
                            !.current_book_id = Some(book_id),
                            !.library.last_book = Some(book_id)]
        IN [app |-> a1, disk |-> save_library(f, d, a1.library, ok), res |-> "Loaded"]

\* load_book(book_id); ok: the save_library at its end goes through
load_book(f, a, d, book_id, ok) ==
    LET content == d.books[book_id] IN
    IF content = None
    THEN [app |-> a, disk |-> d, res |-> "NotFound"]
    ELSE
      LET words == tokenize_text(unwrap(content)) IN
      IF words = <<>>
      THEN [app |-> [a EXCEPT !.words = words], disk |-> d, res |-> "EmptyBook"]
      ELSE
        LET i  == find(a.library.books, book_id)
            a1 == [a EXCEPT !.words = words,
                            !.word_index =
                                IF i > 0
                                THEN Min(a.library.books[i].progress,
                                         saturating_sub(Len(words), 1))
                                ELSE 0,
                            !.current_book_id = Some(book_id),
                            !.library.last_book = Some(book_id)]
        IN [app |-> a1, disk |-> save_library(f, d, a1.library, ok), res |-> "Loaded"]

\* load_last_book (tui main) / the end of RSVPApp::new (gui)
load_last_book(f, a, d, ok) ==
    IF a.library.last_book # None
    THEN load_book(f, a, d, unwrap(a.library.last_book), ok)
    ELSE [app |-> a, disk |-> d, res |-> "NoLast"]

\* import_file without the test for an empty token sequence
import_file_unchecked(f, a, d, path, h, w) ==
    LET content == SourceFile(path) IN
    IF content = None
    THEN [app |-> a, disk |-> d, res |-> "IoError"]
    ELSE
      LET words == tokenize_text(unwrap(content)) IN
      IF w = 1
      THEN [app |-> a, disk |-> d, res |-> "WriteFailed"]
      ELSE
        LET book == [id |-> h, total_words |-> Len(words), progress |-> 0]
            d1   == [d EXCEPT !.books[h] = content]
            a1   == [a EXCEPT !.library.books = Append(@, book)]
            d2   == save_library(f, d1, a1.library, w # 2)
            r    == load_book(f, a1, d2, h, w # 3)
        IN [app |-> r.app, disk |-> r.disk, res |-> "Imported"]

\* import_file that adds the Book to the library before the book file is
\* written
import_file_push_first(f, a, d, path, h, w) ==
    LET content == SourceFile(path) IN
    IF content = None
    THEN [app |-> a, disk |-> d, res |-> "IoError"]
    ELSE
      LET words == tokenize_text(unwrap(content)) IN
      IF words = <<>>
      THEN [app |-> a, disk |-> d, res |-> "EmptyBook"]
      ELSE
        LET book == [id |-> h, total_words |-> Len(words), progress |-> 0]
            a1   == [a EXCEPT !.library.books = Append(@, book)]
        IN
        IF w = 1
        THEN [app |-> a1, disk |-> d, res |-> "WriteFailed"]
        ELSE
          LET d1 == [d EXCEPT !.books[h] = content]
              d2 == save_library(f, d1, a1.library, w # 2)
              r  == load_book(f, a1, d2, h, w # 3)
          IN [app |-> r.app, disk |-> r.disk, res |-> "Imported"]

\* import_file(path); h: the id taken from the hash of (path, SystemTime::now());
\* w: which write of the call fails (0: none, 1: the book file, 2: the library
\* after the push, 3: the library in load_book)
import_file(f, a, d, path, h, w) ==
    LET content == SourceFile(path) IN
    IF content = None
    THEN [app |-> a, disk |-> d, res |-> "IoError"]
    ELSE
      LET words == tokenize_text(unwrap(content)) IN
      IF words = <<>>
      THEN [app |-> a, disk |-> d, res |-> "EmptyBook"]
      ELSE IF w = 1
      THEN [app |-> a, disk |-> d, res |-> "WriteFailed"]
      ELSE
        LET book == [id |-> h, total_words |-> Len(words), progress |-> 0]
            d1   == [d EXCEPT !.books[h] = content]
            a1   == [a EXCEPT !.library.books = Append(@, book)]
            d2   == save_library(f, d1, a1.library, w # 2)
            r    == load_book(f, a1, d2, h, w # 3)
        IN [app |-> r.app, disk |-> r.disk, res |-> "Imported"]

\* save_progress that records the cursor in memory alone
save_progress_unsaved(f, a, d, ok) ==
    IF a.current_book_id # None
    THEN
      LET i  == find(a.library.books, unwrap(a.current_book_id))
          a1 == IF i > 0 THEN [a EXCEPT !.library.books[i].progress = a.word_index]
                         ELSE a
      IN [app |-> a1, disk |-> d]
    ELSE [app |-> a, disk |-> d]

\* save_progress that gives up, the cursor not recorded, when the write fails
save_progress_strict(f, a, d, ok) ==
    IF a.current_book_id # None /\ ok
    THEN
      LET i  == find(a.library.books, unwrap(a.current_book_id))
          a1 == IF i > 0 THEN [a EXCEPT !.library.books[i].progress = a.word_index]
                         ELSE a
      IN [app |-> a1, disk |-> save_library(f, d, a1.library, ok)]
    ELSE [app |-> a, disk |-> d]

\* save_progress; ok: the save_library goes through
save_progress(f, a, d, ok) ==
    IF a.current_book_id # None
    THEN
      LET i  == find(a.library.books, unwrap(a.current_book_id))
          a1 == IF i > 0 THEN [a EXCEPT !.library.books[i].progress = a.word_index]
                         ELSE a
      IN [app |-> a1, disk |-> save_library(f, d, a1.library, ok)]
    ELSE [app |-> a, disk |-> d]

\* a delay of 200 ms whatever the rate
delay_elapsed_fixed(a) == a.last_advance >= 200

\* Duration::from_secs_f64(60.0 / wpm as f64) panics when the quotient is
\* not finite: 60.0 / 0.0 is the infinity
delay_panics(a) == a.wpm = 0

\* last_advance.elapsed() >= Duration::from_secs_f64(60.0 / wpm), for the
\* rates other than 0; the delay of a rate from 2^31 on is some nanoseconds,
\* more than no time and less than a millisecond
delay_elapsed(a) ==
    IF a.wpm < 0
    THEN a.last_advance > 0
    ELSE a.last_advance * a.wpm >= MsPerMinute

\* tick that advances by a word for every whole delay that has passed
tick_catch_up(f, a, d, ok) ==
    IF a.is_playing /\ a.words # <<>>
    THEN
      IF delay_elapsed(a)
      THEN
        LET a1 == [a EXCEPT !.last_advance = 0] IN
        IF a1.word_index < Len(a1.words) - 1
        THEN
          LET a2 == [a1 EXCEPT !.word_index =
                         Min(@ + (a.last_advance * a.wpm) \div MsPerMinute,
                             Len(a1.words) - 1)] IN
          IF a2.word_index % SaveEvery = 0
          THEN LET r == save_progress(f, a2, d, ok)
               IN [app |-> r.app, disk |-> r.disk, res |-> "Advanced"]
          ELSE [app |-> a2, disk |-> d, res |-> "Advanced"]
        ELSE
          LET r == save_progress(f, [a1 EXCEPT !.is_playing = FALSE], d, ok)
          IN [app |-> r.app, disk |-> r.disk, res |-> "Finished"]
      ELSE [app |-> a, disk |-> d, res |-> "Waiting"]
    ELSE [app |-> a, disk |-> d, res |-> "Idle"]

\* tick without the save every SaveEvery words
tick_no_checkpoint(f, a, d, ok) ==
    IF a.is_playing /\ a.words # <<>>
    THEN
      IF delay_elapsed(a)
      THEN
        LET a1 == [a EXCEPT !.last_advance = 0] IN
        IF a1.word_index < Len(a1.words) - 1
        THEN [app |-> [a1 EXCEPT !.word_index = @ + 1], disk |-> d, res |-> "Advanced"]
        ELSE
          LET r == save_progress(f, [a1 EXCEPT !.is_playing = FALSE], d, ok)
          IN [app |-> r.app, disk |-> r.disk, res |-> "Finished"]
      ELSE [app |-> a, disk |-> d, res |-> "Waiting"]
    ELSE [app |-> a, disk |-> d, res |-> "Idle"]

\* tick that stops at the end without saving the progress
tick_no_final_save(f, a, d, ok) ==
    IF a.is_playing /\ a.words # <<>>
    THEN
      IF delay_elapsed(a)
      THEN
        LET a1 == [a EXCEPT !.last_advance = 0] IN
        IF a1.word_index < Len(a1.words) - 1
        THEN
          LET a2 == [a1 EXCEPT !.word_index = @ + 1] IN
          IF a2.word_index % SaveEvery = 0
          THEN LET r == save_progress(f, a2, d, ok)
               IN [app |-> r.app, disk |-> r.disk, res |-> "Advanced"]
          ELSE [app |-> a2, disk |-> d, res |-> "Advanced"]
        ELSE [app |-> [a1 EXCEPT !.is_playing = FALSE], disk |-> d, res |-> "Finished"]
      ELSE [app |-> a, disk |-> d, res |-> "Waiting"]
    ELSE [app |-> a, disk |-> d, res |-> "Idle"]

\* App::tick / Message::Tick; res tells what the call did
tick(f, a, d, ok) ==
    IF a.is_playing /\ a.words # <<>>
    THEN
      IF delay_elapsed(a)
      THEN
        LET a1 == [a EXCEPT !.last_advance = 0] IN
        IF a1.word_index < Len(a1.words) - 1
        THEN
          LET a2 == [a1 EXCEPT !.word_index = @ + 1] IN
          IF a2.word_index % SaveEvery = 0
          THEN LET r == save_progress(f, a2, d, ok)
               IN [app |-> r.app, disk |-> r.disk, res |-> "Advanced"]
          ELSE [app |-> a2, disk |-> d, res |-> "Advanced"]
        ELSE
          LET r == save_progress(f, [a1 EXCEPT !.is_playing = FALSE], d, ok)
          IN [app |-> r.app, disk |-> r.disk, res |-> "Finished"]
      ELSE [app |-> a, disk |-> d, res |-> "Waiting"]
    ELSE [app |-> a, disk |-> d, res |-> "Idle"]

\* toggle_play that keeps the cursor at the last index
toggle_play_no_restart(a) ==
    IF a.words # <<>>
    THEN [a EXCEPT !.is_playing = ~a.is_playing, !.last_advance = 0]
    ELSE a

\* KeyCode::Char(' ') (tui) / Message::TogglePlay (gui)
toggle_play(a) ==
    IF a.words # <<>>
    THEN [a EXCEPT !.word_index = IF a.word_index >= Len(a.words) - 1 THEN 0 ELSE @,
                   !.is_playing = ~a.is_playing,
                   !.last_advance = 0]
    ELSE a

\* speed_up that changes the session's rate alone
speed_up_session_only(f, a, d, increment, ok) ==
    [app |-> [a EXCEPT !.wpm = u32_min(wrapping_add(a.wpm, increment), MaxWpm)],
     disk |-> d]

\* Up / k, with SHIFT increment = 100 (tui); Message::SpeedUp, increment 50 (gui)
speed_up(f, a, d, increment, ok) ==
    LET a1 == [a EXCEPT !.wpm = u32_min(wrapping_add(a.wpm, increment), MaxWpm)]
        a2 == [a1 EXCEPT !.library.wpm = a1.wpm]
    IN [app |-> a2, disk |-> save_library(f, d, a2.library, ok)]

\* Down / j (tui); Message::SpeedDown (gui)
speed_down(f, a, d, decrement, ok) ==
    LET a1 == [a EXCEPT !.wpm = u32_max(u32_saturating_sub(a.wpm, decrement), MinWpm)]
        a2 == [a1 EXCEPT !.library.wpm = a1.wpm]
    IN [app |-> a2, disk |-> save_library(f, d, a2.library, ok)]

\* Left / h and [ / b (tui, n = 1, 10); Message::PrevWord (gui, n = 1)
prev_word(a, n) ==
    [a EXCEPT !.is_playing = FALSE,
              !.word_index = saturating_sub(a.word_index, n)]

\* next_word without the clamp to the last index
next_word_unclamped(a, n) ==
    [a EXCEPT !.is_playing = FALSE,
              !.word_index = IF a.words # <<>> THEN a.word_index + n ELSE @]

\* next_word that also writes the cursor into the active Book's progress
next_word_recording(a, n) ==
    LET a1 == [a EXCEPT !.is_playing = FALSE,
                        !.word_index = IF a.words # <<>>
                                       THEN Min(a.word_index + n, Len(a.words) - 1)
                                       ELSE @]
        i  == IF a.current_book_id = None THEN 0
              ELSE find(a.library.books, unwrap(a.current_book_id))
    IN IF i > 0 THEN [a1 EXCEPT !.library.books[i].progress = a1.word_index] ELSE a1

\* Right / l and ] / w (tui, n = 1, 10); Message::NextWord (gui, n = 1)
next_word(a, n) ==
    [a EXCEPT !.is_playing = FALSE,
              !.word_index = IF a.words # <<>>
                             THEN Min(a.word_index + n, Len(a.words) - 1)
                             ELSE @]

\* reset without the save_progress call
reset_no_save(f, a, d, ok) ==
    [app |-> [a EXCEPT !.is_playing = FALSE, !.word_index = 0], disk |-> d]

\* r (tui) / Message::Reset (gui)
reset(f, a, d, ok) ==
    save_progress(f, [a EXCEPT !.is_playing = FALSE, !.word_index = 0], d, ok)

\* Vec::retain(|b| b.id != book_id)
RECURSIVE retain_other(_, _)
retain_other(books, book_id) ==
    IF books = <<>> THEN <<>>
    ELSE IF Head(books).id # book_id
         THEN <<Head(books)>> \o retain_other(Tail(books), book_id)
         ELSE retain_other(Tail(books), book_id)

\* delete_book that leaves last_book as it is
delete_book_keeps_last(a, d, book_id, ok) ==
    LET is_current == a.current_book_id = Some(book_id)
        a1 == [a EXCEPT !.library.books = retain_other(@, book_id)]
        d1 == save_library("tui", d, a1.library, ok)
        d2 == [d1 EXCEPT !.books[book_id] = None]
        a2 == IF is_current
              THEN [a1 EXCEPT !.words = <<>>,
                              !.current_book_id = None,
                              !.word_index = 0,
                              !.is_playing = FALSE]
              ELSE a1
    IN [app |-> a2, disk |-> d2]

\* delete_book that leaves the session as it is
delete_book_keeps_session(a, d, book_id, ok) ==
    LET a1 == [a EXCEPT !.library.books = retain_other(@, book_id),
                        !.library.last_book = IF @ = Some(book_id) THEN None ELSE @]
        d1 == save_library("tui", d, a1.library, ok)
        d2 == [d1 EXCEPT !.books[book_id] = None]
    IN [app |-> a1, disk |-> d2]

\* delete_book that leaves the book file in the books directory
delete_book_keeps_file(a, d, book_id, ok) ==
    LET is_current == a.current_book_id = Some(book_id)
        a1 == [a EXCEPT !.library.books = retain_other(@, book_id),
                        !.library.last_book = IF @ = Some(book_id) THEN None ELSE @]
        d1 == save_library("tui", d, a1.library, ok)
        a2 == IF is_current
              THEN [a1 EXCEPT !.words = <<>>,
                              !.current_book_id = None,
                              !.word_index = 0,
                              !.is_playing = FALSE]
              ELSE a1
    IN [app |-> a2, disk |-> d1]

\* ConfirmAction::DeleteBook(book_id) confirmed with y (tui)
delete_book(a, d, book_id, ok) ==
    LET is_current == a.current_book_id = Some(book_id)
        a1 == [a EXCEPT !.library.books = retain_other(@, book_id),
                        !.library.last_book = IF @ = Some(book_id) THEN None ELSE @]
        d1 == save_library("tui", d, a1.library, ok)
        d2 == [d1 EXCEPT !.books[book_id] = None]
        a2 == IF is_current
              THEN [a1 EXCEPT !.words = <<>>,
                              !.current_book_id = None,
                              !.word_index = 0,
                              !.is_playing = FALSE]
              ELSE a1
    IN [app |-> a2, disk |-> d2]

----------------------------------------------------------------------------
(* The state machine *)

Event(op, res, id, fail) == [op |-> op, res |-> res, id |-> id, fail |-> fail]

\* The outcomes of one best-effort write: a failure is an environment fault.
Oks == IF faults < MaxFaults THEN {TRUE, FALSE} ELSE {TRUE}
\* The write of import_file that fails (0: none).
Ws == IF faults < MaxFaults THEN 0..3 ELSE {0}

EmptyDisk == [library_file |-> None, books |-> [i \in Ids |-> None]]

\* Two fields are kept only while the code can read them.  last_advance is
\* read by tick while is_playing alone, and every change of is_playing to true
\* sets it.  library_state is read in the Library mode alone, which is entered
\* through o: that selects the first Book, or finds no Book to select.
Norm(a) ==
    [a EXCEPT !.last_advance = IF a.is_playing THEN @ ELSE 0,
              !.library_state = IF a.mode = "Library" THEN @ ELSE None]

\* The ids in use, in the library or as a book file.
InUse(a, d) ==
    {i \in Ids : d.books[i] # None \/ find(a.library.books, i) > 0}
\* The ids the hash of (path, time) can yield, up to the names of unused ids:
\* an id in use (a collision) or the least unused one.
HashOutcomes(a, d) ==
    InUse(a, d) \cup {i \in Ids \ InUse(a, d) : \A j \in Ids \ InUse(a, d) : i <= j}

RECURSIVE stored_words(_)
stored_words(books) ==
    IF books = <<>> THEN 0 ELSE Head(books).total_words + stored_words(Tail(books))

\* The imports the model follows: the library stays within MaxBooks books and
\* MaxStoredWords words.
ImportInBounds(a, path) ==
    /\ Len(a.library.books) < MaxBooks
    /\ SourceFile(path) # None =>
         stored_words(a.library.books) + Len(tokenize_text(unwrap(SourceFile(path))))
            <= MaxStoredWords

\* file_input.clear() and file_input_cursor = 0
NoInput == [text |-> <<>>, cursor |-> 0]

\* no desktop session runs beside
NoTwin == [app |-> NoApp, disk |-> EmptyDisk]

\* The process starts: main (tui) / RSVPApp::new (gui)
Start ==
    /\ app.mode = "Off"
    /\ \E ok \in Oks :
         LET r == load_last_book(fe, new(fe, disk), disk, ok) IN
         /\ ok \/ r # load_last_book(fe, new(fe, disk), disk, TRUE)
         /\ app' = Norm(r.app)
         /\ disk' = r.disk
         /\ faults' = IF ok THEN faults ELSE faults + 1
         /\ ev' = Event("start", r.res, r.app.current_book_id, IF ok THEN 0 ELSE 1)
    /\ file_input' = NoInput
    /\ UNCHANGED <<hashed, twin, shown, fe, dialogs, tampered>>

Init ==
    /\ fe \in {"tui", "gui"}
    /\ disk = EmptyDisk
    /\ app = new(fe, disk)
    /\ dialogs = 0
    /\ faults = 0
    /\ tampered = FALSE
    /\ shown = None
    /\ hashed = None
    /\ file_input = NoInput
    /\ twin = NoTwin
    /\ ev = Event("start", "NoLast", None, 0)

\* Wall-clock time passes while the session plays.
Pass ==
    /\ app.mode # "Off"
    /\ app.is_playing
    /\ app' = [app EXCEPT !.last_advance = Min(@ + TimeStep, MaxElapsed)]
    /\ ev' = Event("pass", "", None, 0)
    /\ UNCHANGED <<file_input, hashed, twin, shown, fe, disk, dialogs, faults, tampered>>

\* A book file disappears from the books directory (removed from outside).
EnvRemoveBookFile(id) ==
    /\ faults < MaxFaults
    /\ disk.books[id] # None
    /\ disk' = [disk EXCEPT !.books[id] = None]
    /\ faults' = faults + 1
    /\ ev' = Event("env", "", None, 0)
    /\ UNCHANGED <<file_input, hashed, twin, shown, fe, app, dialogs, tampered>>

\* A book file is overwritten from outside with text that holds no word.
EnvBlankBookFile(id) ==
    /\ faults < MaxFaults
    /\ disk.books[id] # None
    /\ disk' = [disk EXCEPT !.books[id] = Some(<<" ">>)]
    /\ faults' = faults + 1
    /\ tampered' = TRUE
    /\ ev' = Event("env", "", None, 0)
    /\ UNCHANGED <<file_input, hashed, twin, shown, fe, app, dialogs>>

\* A handler that changes App alone.
Handle(op, a) ==
    /\ app' = Norm(a)
    /\ ev' = Event(op, "", None, 0)
    /\ UNCHANGED <<file_input, hashed, twin, shown, fe, disk, dialogs, faults, tampered>>

\* A handler with one best-effort save: rt is its result when the save goes
\* through, rf when it fails.  A failed save that changes nothing is no
\* separate outcome.
HandleSave(op, res, id, rt, rf) ==
    /\ \E ok \in Oks :
         LET r == IF ok THEN rt ELSE rf IN
         /\ ok \/ rf # rt
         /\ app' = Norm(r.app)
         /\ disk' = r.disk
         /\ faults' = IF ok THEN faults ELSE faults + 1
         /\ ev' = Event(op, res, id, IF ok THEN 0 ELSE 1)
    /\ UNCHANGED <<file_input, hashed, twin, shown, fe, dialogs, tampered>>

\* A seek key: the event keeps the key's direction and distance.
SeekKey(dir, n) == IF n = 1 THEN dir ELSE dir \o "_skip"

HandleSeek(dir, n, a) ==
    /\ app' = Norm(a)
    /\ ev' = Event("seek", SeekKey(dir, n), None, 0)
    /\ UNCHANGED <<file_input, hashed, twin, shown, fe, disk, dialogs, faults, tampered>>

RateInWindow(wpm) ==
    /\ wpm >= DefaultWpm - MaxRateSteps * WpmStep
    /\ wpm <= DefaultWpm + MaxRateSteps * WpmStep

----------------------------------------------------------------------------
(* Terminal front-end: run_app calls tick and handle_events in turn; a tick  *)
(* that finds nothing due changes nothing, so ticks and keys interleave.     *)

Tui(mode) == fe = "tui" /\ app.mode = mode

TuiRunning == fe = "tui" /\ app.mode # "Off"

TuiTick ==
    /\ TuiRunning
    /\ ~(app.is_playing /\ app.words # <<>> /\ delay_panics(app))
    /\ HandleSave("tick", tick("tui", app, disk, TRUE).res, app.current_book_id,
                  tick("tui", app, disk, TRUE), tick("tui", app, disk, FALSE))

\* q / Esc: run_app returns, main saves the progress and the process ends
TuiQuit ==
    /\ Tui("Reading")
    /\ \E ok \in Oks :
         LET r == save_progress("tui", app, disk, ok) IN
         /\ ok \/ r # save_progress("tui", app, disk, TRUE)
         /\ disk' = r.disk
         /\ faults' = IF ok THEN faults ELSE faults + 1
         /\ ev' = Event("quit", "", app.current_book_id, IF ok THEN 0 ELSE 1)
    /\ app' = NoApp
    /\ UNCHANGED <<file_input, hashed, twin, shown, fe, dialogs, tampered>>

TuiSpace ==
    /\ Tui("Reading")
    /\ Handle("toggle_play", toggle_play(app))

TuiSpeedUp(increment) ==
    /\ Tui("Reading")
    /\ HandleSave("rate", "", None,
                  speed_up("tui", app, disk, increment, TRUE),
                  speed_up("tui", app, disk, increment, FALSE))

TuiSpeedDown(decrement) ==
    /\ Tui("Reading")
    /\ HandleSave("rate", "", None,
                  speed_down("tui", app, disk, decrement, TRUE),
                  speed_down("tui", app, disk, decrement, FALSE))

\* Left / h (n = 1), [ / b (n = 10)
TuiBack(n) ==
    /\ Tui("Reading")
    /\ HandleSeek("prev", n, prev_word(app, n))

\* Right / l (n = 1), ] / w (n = 10)
TuiForward(n) ==
    /\ Tui("Reading")
    /\ HandleSeek("next", n, next_word(app, n))

TuiReset ==
    /\ Tui("Reading")
    /\ HandleSave("reset", "", app.current_book_id,
                  reset("tui", app, disk, TRUE), reset("tui", app, disk, FALSE))

\* o: open the library browser
TuiOpenLibrary ==
    /\ Tui("Reading")
    /\ Handle("ui", [app EXCEPT !.is_playing = FALSE,
                                !.mode = "Library",
                                !.library_state =
                                    IF app.library.books # <<>> THEN Some(0) ELSE @])

\* i: open the import prompt
TuiOpenFileInput ==
    /\ Tui("Reading")
    /\ app' = Norm([app EXCEPT !.is_playing = FALSE, !.mode = "FileInput"])
    /\ file_input' = NoInput
    /\ ev' = Event("ui", "", None, 0)
    /\ UNCHANGED <<hashed, twin, shown, fe, disk, dialogs, faults, tampered>>

\* d: ask whether to delete the current book
TuiAskDelete ==
    /\ Tui("Reading")
    /\ app.current_book_id # None
    /\ Handle("ui", [app EXCEPT !.is_playing = FALSE,
                                !.confirm_action = app.current_book_id,
                                !.mode = "Confirm"])

\* ?: show the help
TuiHelp ==
    /\ Tui("Reading")
    /\ Handle("ui", [app EXCEPT !.is_playing = FALSE, !.mode = "Help"])

\* any key closes the help
TuiHelpKey ==
    /\ Tui("Help")
    /\ Handle("ui", [app EXCEPT !.mode = "Reading"])

TuiLibraryEsc ==
    /\ Tui("Library")
    /\ Handle("ui", [app EXCEPT !.mode = "Reading"])

unwrap_or(o, x) == IF o = None THEN x ELSE unwrap(o)

TuiLibraryUp ==
    /\ Tui("Library")
    /\ app.library.books # <<>>
    /\ LET i == unwrap_or(app.library_state, 0)
           new_i == IF i = 0 THEN Len(app.library.books) - 1 ELSE i - 1
       IN Handle("ui", [app EXCEPT !.library_state = Some(new_i)])

TuiLibraryDown ==
    /\ Tui("Library")
    /\ app.library.books # <<>>
    /\ LET i == unwrap_or(app.library_state, 0)
           new_i == (i + 1) % Len(app.library.books)
       IN Handle("ui", [app EXCEPT !.library_state = Some(new_i)])

\* library_state.selected() names a Book: books.get(i), i counted from 0
Selected(a) ==
    IF a.library_state # None /\ unwrap(a.library_state) < Len(a.library.books)
    THEN Some(a.library.books[unwrap(a.library_state) + 1].id)
    ELSE None

TuiLibraryEnter ==
    /\ Tui("Library")
    /\ Selected(app) # None
    /\ LET book_id == unwrap(Selected(app))
           rt == load_book("tui", app, disk, book_id, TRUE)
           rf == load_book("tui", app, disk, book_id, FALSE)
       IN HandleSave("load", rt.res, Some(book_id),
                     [rt EXCEPT !.app.mode = "Reading"],
                     [rf EXCEPT !.app.mode = "Reading"])

TuiLibraryAskDelete ==
    /\ Tui("Library")
    /\ Selected(app) # None
    /\ Handle("ui", [app EXCEPT !.confirm_action = Selected(app),
                                !.mode = "Confirm"])

TuiLibraryImport ==
    /\ Tui("Library")
    /\ app' = Norm([app EXCEPT !.mode = "FileInput"])
    /\ file_input' = NoInput
    /\ ev' = Event("ui", "", None, 0)
    /\ UNCHANGED <<hashed, twin, shown, fe, disk, dialogs, faults, tampered>>

TuiFileInputEsc ==
    /\ Tui("FileInput")
    /\ Handle("ui", [app EXCEPT !.mode = "Reading"])

\* Enter on the typed path; h: the id the hash yields
TuiFileInputEnter(path, h) ==
    /\ Tui("FileInput")
    /\ ImportInBounds(app, path)
    /\ h \in HashOutcomes(app, disk)
    /\ \E w \in Ws :
         LET r == import_file("tui", app, disk, path, h, w) IN
         /\ w = 0 \/ r # import_file("tui", app, disk, path, h, 0)
         /\ app' = Norm(IF r.res = "Imported" THEN [r.app EXCEPT !.mode = "Reading"]
                                              ELSE r.app)
         /\ disk' = r.disk
         /\ faults' = IF w = 0 THEN faults ELSE faults + 1
         /\ ev' = Event("import", r.res, IF r.res = "Imported" THEN Some(h) ELSE None, w)
    /\ UNCHANGED <<file_input, hashed, twin, shown, fe, dialogs, tampered>>

\* y / Y in the Confirm dialog
TuiConfirmYes ==
    /\ Tui("Confirm")
    /\ IF app.confirm_action # None
       THEN LET book_id == unwrap(app.confirm_action)
                a  == [app EXCEPT !.confirm_action = None]
                rt == delete_book(a, disk, book_id, TRUE)
                rf == delete_book(a, disk, book_id, FALSE)
            IN HandleSave("delete", "", Some(book_id),
                          [rt EXCEPT !.app.mode = "Reading"],
                          [rf EXCEPT !.app.mode = "Reading"])
       ELSE Handle("ui", [app EXCEPT !.mode = "Reading"])

\* n / N / Esc in the Confirm dialog
TuiConfirmNo ==
    /\ Tui("Confirm")
    /\ Handle("ui", [app EXCEPT !.confirm_action = None, !.mode = "Reading"])

----------------------------------------------------------------------------
(* Desktop front-end: RSVPApp::update, one message at a time *)

Gui == fe = "gui" /\ app.mode # "Off"

GuiTick ==
    /\ Gui
    /\ ~(app.is_playing /\ app.words # <<>> /\ delay_panics(app))
    /\ HandleSave("tick", tick("gui", app, disk, TRUE).res, app.current_book_id,
                  tick("gui", app, disk, TRUE), tick("gui", app, disk, FALSE))

GuiTogglePlay ==
    /\ Gui
    /\ Handle("toggle_play", toggle_play(app))

GuiSpeedUp ==
    /\ Gui
    /\ HandleSave("rate", "", None,
                  speed_up("gui", app, disk, WpmStep, TRUE),
                  speed_up("gui", app, disk, WpmStep, FALSE))

GuiSpeedDown ==
    /\ Gui
    /\ HandleSave("rate", "", None,
                  speed_down("gui", app, disk, WpmStep, TRUE),
                  speed_down("gui", app, disk, WpmStep, FALSE))

GuiPrevWord ==
    /\ Gui
    /\ HandleSeek("prev", 1, prev_word(app, 1))

GuiNextWord ==
    /\ Gui
    /\ HandleSeek("next", 1, next_word(app, 1))

GuiReset ==
    /\ Gui
    /\ HandleSave("reset", "", app.current_book_id,
                  reset("gui", app, disk, TRUE), reset("gui", app, disk, FALSE))

\* Message::OpenFile: the file dialog opens, update returns its Command
GuiOpenFile ==
    /\ Gui
    /\ dialogs < MaxDialogs
    /\ dialogs' = dialogs + 1
    /\ ev' = Event("dialog", "", None, 0)
    /\ UNCHANGED <<file_input, hashed, twin, shown, fe, app, disk, faults, tampered>>

\* Message::FileOpened(None): the dialog was cancelled
GuiFileCancelled ==
    /\ Gui
    /\ dialogs > 0
    /\ dialogs' = dialogs - 1
    /\ ev' = Event("dialog", "", None, 0)
    /\ UNCHANGED <<file_input, hashed, twin, shown, fe, app, disk, faults, tampered>>

\* Message::FileOpened(Some(path)); h: the id the hash yields
GuiFileOpened(path, h) ==
    /\ Gui
    /\ dialogs > 0
    /\ ImportInBounds(app, path)
    /\ h \in HashOutcomes(app, disk)
    /\ \E w \in Ws :
         LET r == import_file("gui", app, disk, path, h, w) IN
         /\ w = 0 \/ r # import_file("gui", app, disk, path, h, 0)
         /\ app' = Norm(r.app)
         /\ disk' = r.disk
         /\ faults' = IF w = 0 THEN faults ELSE faults + 1
         /\ ev' = Event("import", r.res, IF r.res = "Imported" THEN Some(h) ELSE None, w)
    /\ dialogs' = dialogs - 1
    /\ UNCHANGED <<file_input, hashed, twin, shown, fe, tampered>>

\* Escape: std::process::exit(0)
GuiEscape ==
    /\ Gui
    /\ app' = NoApp
    /\ dialogs' = 0
    /\ ev' = Event("quit", "", app.current_book_id, 0)
    /\ UNCHANGED <<file_input, hashed, twin, shown, fe, disk, faults, tampered>>

\* wpm + increment overflows in a build with overflow checks: the handler
\* panics and the process ends, nothing saved.
SpeedUpPanic(increment) ==
    /\ \/ Tui("Reading")
       \/ Gui /\ increment = WpmStep
    /\ Overflows(app.wpm, increment)
    /\ app' = NoApp
    /\ dialogs' = 0
    /\ ev' = Event("panic", "", None, 0)
    /\ UNCHANGED <<file_input, hashed, twin, shown, fe, disk, faults, tampered>>

----------------------------------------------------------------------------

\* The steps of both front-ends, the rate keys apart
Step ==
    \/ Start
    \/ Pass
    \/ TuiTick
    \/ TuiQuit
    \/ TuiSpace
    \/ \E n \in {1, SkipWords} : TuiBack(n)
    \/ \E n \in {1, SkipWords} : TuiForward(n)
    \/ TuiReset
    \/ TuiOpenLibrary
    \/ TuiOpenFileInput
    \/ TuiAskDelete
    \/ TuiHelp
    \/ TuiHelpKey
    \/ TuiLibraryEsc
    \/ TuiLibraryUp
    \/ TuiLibraryDown
    \/ TuiLibraryEnter
    \/ TuiLibraryAskDelete
    \/ TuiLibraryImport
    \/ TuiFileInputEsc
    \/ \E path \in Paths, h \in Ids : TuiFileInputEnter(path, h)
    \/ TuiConfirmYes
    \/ TuiConfirmNo
    \/ GuiTick
    \/ GuiTogglePlay
    \/ GuiPrevWord
    \/ GuiNextWord
    \/ GuiReset
    \/ GuiOpenFile
    \/ GuiFileCancelled
    \/ \E path \in Paths, h \in Ids : GuiFileOpened(path, h)
    \/ GuiEscape

\* The engine at the default rate, with up to MaxFaults environment faults
Next ==
    \/ Step
    \/ \E id \in Ids : EnvRemoveBookFile(id)
    \/ \E id \in Ids : EnvBlankBookFile(id)

Spec == Init /\ [][Next]_vars

\* The engine with the rate keys, every write going through
InitRate ==
    /\ fe \in {"tui", "gui"}
    /\ disk = EmptyDisk
    /\ app = new(fe, disk)
    /\ dialogs = 0
    /\ faults = MaxFaults
    /\ tampered = FALSE
    /\ shown = None
    /\ hashed = None
    /\ file_input = NoInput
    /\ twin = NoTwin
    /\ ev = Event("start", "NoLast", None, 0)

\* The rate keys
RateKey ==
    \/ \E n \in {WpmStep, WpmShiftStep} : TuiSpeedUp(n)
    \/ \E n \in {WpmStep, WpmShiftStep} : TuiSpeedDown(n)
    \/ GuiSpeedUp
    \/ GuiSpeedDown

NextRate ==
    \/ Step
    \/ RateKey /\ RateInWindow(app'.wpm)

SpecRate == InitRate /\ [][NextRate]_vars

\* The rate keys on a library.json that holds any rate a u32 can hold (the
\* file is text a user can edit), with no book or with long.txt imported and
\* read up to its second token; up to MaxFaults environment faults.
StoredRates == {0, LowRate, DefaultWpm, MaxWpm + LowRate, HighRate, u32_MAX}

\* The rates from 2^31 on that the model follows: the top of the u32 range
TopRate(wpm) == wpm < 0 => wpm >= u32_MAX - MaxTopSteps * WpmShiftStep

OneBookLibrary ==
    [default_library EXCEPT
        !.books = <<[id |-> 1,
                     total_words |-> Len(tokenize_text(unwrap(SourceFile("long.txt")))),
                     progress |-> 1]>>,
        !.last_book = Some(1)]

InitStoredRate ==
    /\ fe \in {"tui", "gui"}
    /\ \E r \in StoredRates, library \in {default_library, OneBookLibrary} :
         disk = save_library(fe,
                             [EmptyDisk EXCEPT !.books =
                                 IF library.books = <<>> THEN @
                                 ELSE [@ EXCEPT ![1] = SourceFile("long.txt")]],
                             [library EXCEPT !.wpm = r], TRUE)
    /\ app = NoApp
    /\ dialogs = 0
    /\ faults = 0
    /\ tampered = FALSE
    /\ shown = None
    /\ hashed = None
    /\ file_input = NoInput
    /\ twin = NoTwin
    /\ ev = Event("env", "", None, 0)

NextStoredRate ==
    \/ Start
    \/ RateKey /\ TopRate(app'.wpm)
    \/ \E n \in {WpmStep, WpmShiftStep} : SpeedUpPanic(n)
    \/ TuiSpace
    \/ GuiTogglePlay
    \/ TuiQuit
    \/ GuiEscape

SpecStoredRate == InitStoredRate /\ [][NextStoredRate]_vars

\* App::tick / Message::Tick panics on the delay of the rate 0: the process
\* ends, nothing is saved
TickPanic ==
    /\ TuiRunning \/ Gui
    /\ app.is_playing
    /\ app.words # <<>>
    /\ delay_panics(app)
    /\ app' = NoApp
    /\ dialogs' = 0
    /\ ev' = Event("panic", "tick", None, 0)
    /\ UNCHANGED <<file_input, hashed, twin, shown, fe, disk, faults, tampered>>

\* Playing at a rate read from the persisted library
NextPlay ==
    \/ Start
    \/ RateKey /\ TopRate(app'.wpm)
    \/ \E n \in {WpmStep, WpmShiftStep} : SpeedUpPanic(n)
    \/ TuiSpace
    \/ GuiTogglePlay
    \/ Pass
    \/ TuiTick
    \/ GuiTick
    \/ TickPanic

SpecPlay == InitStoredRate /\ [][NextPlay]_vars

\* Imports of a text of two tokens, over again and across restarts, with the
\* single-step seek keys, reset and quit; up to MaxFaults environment faults.
NextImport ==
    \/ Start
    \/ TuiQuit
    \/ TuiBack(1)
    \/ TuiForward(1)
    \/ TuiReset
    \/ TuiOpenFileInput
    \/ TuiFileInputEsc
    \/ \E h \in Ids : TuiFileInputEnter("two.txt", h)
    \/ GuiPrevWord
    \/ GuiNextWord
    \/ GuiReset
    \/ GuiOpenFile
    \/ GuiFileCancelled
    \/ \E h \in Ids : GuiFileOpened("two.txt", h)
    \/ GuiEscape

SpecImport == Init /\ [][NextImport]_vars

\* The documents library.json can hold that front-end f cannot parse: the
\* other front-end's document (here with long.txt imported) and text that is
\* no library document at all.
Unparsable(f) ==
    {[fmt |-> IF f = "tui" THEN "gui" ELSE "tui", lib |-> OneBookLibrary],
     [fmt |-> "garbage", lib |-> default_library]}

\* Start-up on a configuration directory whose library.json is missing or
\* cannot be parsed, then the operations of NextImport.
InitStart ==
    /\ fe \in {"tui", "gui"}
    /\ \/ disk = EmptyDisk
       \/ \E doc \in Unparsable(fe) :
            disk = [library_file |-> Some(doc),
                    books |-> [EmptyDisk.books EXCEPT ![1] =
                                  IF doc.lib.books = <<>> THEN @
                                  ELSE SourceFile("long.txt")]]
    /\ app = NoApp
    /\ dialogs = 0
    /\ faults = 0
    /\ tampered = FALSE
    /\ shown = None
    /\ hashed = None
    /\ file_input = NoInput
    /\ twin = NoTwin
    /\ ev = Event("env", "", None, 0)

SpecStart == InitStart /\ [][NextImport]_vars

\* The texts of a book file: every sequence of up to MaxTextLen chars, of
\* letters and of white space
TextsOf(n) == UNION {[1..k -> {"a", "b"} \cup WhiteSpace] : k \in 0..n}
Texts == TextsOf(MaxTextLen)

\* A library of one book, not yet read, whose file holds the text
TextLibrary(text) ==
    [default_library EXCEPT
        !.books = <<[id |-> 1,
                     total_words |-> Len(tokenize_text(text)),
                     progress |-> 0]>>,
        !.last_book = Some(1)]

InitText ==
    /\ fe \in {"tui", "gui"}
    /\ \E text \in Texts :
         disk = save_library(fe,
                             [EmptyDisk EXCEPT !.books[1] = Some(text)],
                             TextLibrary(text), TRUE)
    /\ app = NoApp
    /\ dialogs = 0
    /\ faults = 0
    /\ tampered = FALSE
    /\ shown = None
    /\ hashed = None
    /\ file_input = NoInput
    /\ twin = NoTwin
    /\ ev = Event("env", "", None, 0)

NextText ==
    \/ Start
    \/ TuiQuit
    \/ GuiEscape

SpecText == InitText /\ [][NextText]_vars

\* With no process running, the user turns to the other front-end: both keep
\* config_dir()/library.json and config_dir()/books
Switch ==
    /\ app.mode = "Off"
    /\ fe' = IF fe = "tui" THEN "gui" ELSE "tui"
    /\ ev' = Event("env", "switch", None, 0)
    /\ UNCHANGED <<file_input, hashed, twin, shown, app, disk, dialogs, faults, tampered>>

\* Sessions of the two front-ends in turn on the same files
NextSwitch ==
    \/ NextImport
    \/ RateKey /\ RateInWindow(app'.wpm)
    \/ Switch

SpecSwitch == Init /\ [][NextSwitch]_vars

\* The hash values followed: z zero digits, then the digit c repeated
Hashes ==
    {[i \in 1..HashDigits |-> IF i <= z THEN 0 ELSE c] :
        z \in 0..MaxZeros, c \in {1, 7, 10, 15}}

\* The lines of import_file that make the id of the hash of (path, now); the
\* import goes on from there
HashBookId(hash) ==
    /\ app.mode # "Off"
    /\ fe = "tui" => app.mode = "FileInput"
    /\ make_book_id(hash) # None
    /\ hashed' = Some([hash |-> hash, id |-> make_book_id(hash)])
    /\ ev' = Event("hash", "", None, 0)
    /\ UNCHANGED <<file_input, twin, shown, fe, app, disk, dialogs, faults, tampered>>

\* The same lines when the slice panics: the process ends
HashPanic(hash) ==
    /\ app.mode # "Off"
    /\ fe = "tui" => app.mode = "FileInput"
    /\ make_book_id(hash) = None
    /\ hashed' = Some([hash |-> hash, id |-> None])
    /\ app' = NoApp
    /\ dialogs' = 0
    /\ ev' = Event("panic", "book_id", None, 0)
    /\ UNCHANGED <<file_input, twin, shown, fe, disk, faults, tampered>>

NextHash ==
    \/ Start
    \/ TuiOpenFileInput
    \/ \E hash \in Hashes : HashBookId(hash)
    \/ \E hash \in Hashes : HashPanic(hash)

SpecHash == Init /\ [][NextHash]_vars

\* The chars typed, of 1, 2 and 3 bytes
InputChars == {"a", "U+00E9", "U+20AC"}

\* The keys that edit the import-path field
InputKeys ==
    {[code |-> "Char", c |-> c] : c \in InputChars}
        \cup {[code |-> code, c |-> ""] :
                 code \in {"Backspace", "Delete", "Left", "Right", "Home", "End"}}

\* A key in the import-path field
TuiFileInputKey(key) ==
    /\ Tui("FileInput")
    /\ key.code = "Char" => Len(file_input.text) < MaxInputLen
    /\ ~key_panics(file_input, key)
    /\ file_input' = file_input_key(file_input, key)
    /\ ev' = Event("key", key.code, None, 0)
    /\ UNCHANGED <<hashed, twin, shown, fe, app, disk, dialogs, faults, tampered>>

\* A key whose String operation panics: the process ends
FileInputPanic(key) ==
    /\ Tui("FileInput")
    /\ key_panics(file_input, key)
    /\ app' = NoApp
    /\ dialogs' = 0
    /\ ev' = Event("panic", "file_input", None, 0)
    /\ UNCHANGED <<file_input, hashed, twin, shown, fe, disk, faults, tampered>>

NextInput ==
    \/ Start
    \/ TuiOpenFileInput
    \/ TuiFileInputEsc
    \/ \E key \in InputKeys : TuiFileInputKey(key)
    \/ \E key \in InputKeys : FileInputPanic(key)

SpecInput == Init /\ [][NextInput]_vars

\* The stored rates played to the end: 0, and rates whose delay is not
\* longer than MaxElapsed
FairRates == {0, DefaultWpm, HighRate, u32_MAX}

InitFairPlay ==
    /\ fe \in {"tui", "gui"}
    /\ \E r \in FairRates :
         disk = save_library(fe,
                             [EmptyDisk EXCEPT !.books[1] = SourceFile("long.txt")],
                             [OneBookLibrary EXCEPT !.wpm = r], TRUE)
    /\ app = NoApp
    /\ dialogs = 0
    /\ faults = 0
    /\ tampered = FALSE
    /\ shown = None
    /\ hashed = None
    /\ file_input = NoInput
    /\ twin = NoTwin
    /\ ev = Event("env", "", None, 0)

\* Space / Message::TogglePlay that starts the playback
Play ==
    /\ ~app.is_playing
    /\ TuiSpace \/ GuiTogglePlay

\* The session is started and set playing; from then on time passes and
\* run_app (tui) / the subscription (gui) calls tick, nothing else
NextFairPlay ==
    \/ Start
    \/ Play
    \/ Pass
    \/ TuiTick
    \/ GuiTick
    \/ TickPanic

\* run_app calls tick in every turn of its loop, time::every(10 ms) sends
\* Message::Tick while playing, and the clock goes on
SpecFairPlay ==
    /\ InitFairPlay
    /\ [][NextFairPlay]_vars
    /\ WF_vars(Pass)
    /\ WF_vars(TuiTick)
    /\ WF_vars(GuiTick)
    /\ WF_vars(TickPanic)

\* The files both sessions are started from: none, or a library of one book
\* as one of the front-ends wrote it
TwinFiles ==
    {EmptyDisk} \cup
    {save_library(f, [EmptyDisk EXCEPT !.books[1] = SourceFile("long.txt")],
                  OneBookLibrary, TRUE) :
        f \in {"tui", "gui"}}

InitTwin ==
    /\ fe = "tui"
    /\ disk \in TwinFiles
    /\ app = NoApp
    /\ twin = [app |-> NoApp, disk |-> disk]
    /\ dialogs = 0
    /\ faults = 0
    /\ tampered = FALSE
    /\ shown = None
    /\ hashed = None
    /\ file_input = NoInput
    /\ ev = Event("env", "", None, 0)

\* An operation carried out by both sessions at the same instant, every
\* write going through: rt its result in the terminal session, rg in the
\* desktop one
Both(op, res, rt, rg) ==
    /\ app' = Norm(rt.app)
    /\ disk' = rt.disk
    /\ twin' = [app |-> Norm(rg.app), disk |-> rg.disk]
    /\ ev' = Event(op, res, rt.app.current_book_id, 0)
    /\ UNCHANGED <<file_input, hashed, shown, fe, dialogs, faults, tampered>>

BothRunning == Tui("Reading") /\ twin.app.mode # "Off"

\* main (tui) and RSVPApp::new (gui)
BothStart ==
    /\ app.mode = "Off"
    /\ twin.app.mode = "Off"
    /\ Both("start", load_last_book("tui", new("tui", disk), disk, TRUE).res,
            load_last_book("tui", new("tui", disk), disk, TRUE),
            load_last_book("gui", new("gui", twin.disk), twin.disk, TRUE))

\* i, the path and Enter, then Esc when the import was refused (tui);
\* Message::OpenFile and Message::FileOpened (gui); the hash of (path, time),
\* the same in both, is an id unused in both
BothImport(path, h) ==
    /\ BothRunning
    /\ ImportInBounds(app, path)
    /\ ImportInBounds(twin.app, path)
    /\ h \in HashOutcomes(app, disk) \ InUse(app, disk)
    /\ h \in HashOutcomes(twin.app, twin.disk) \ InUse(twin.app, twin.disk)
    /\ Both("import", import_file("tui", app, disk, path, h, 0).res,
            import_file("tui", [app EXCEPT !.is_playing = FALSE], disk, path, h, 0),
            import_file("gui", twin.app, twin.disk, path, h, 0))

\* Space (tui) and Message::TogglePlay (gui)
BothTogglePlay ==
    /\ BothRunning
    /\ Both("toggle_play", "",
            [app |-> toggle_play(app), disk |-> disk],
            [app |-> toggle_play(twin.app), disk |-> twin.disk])

\* The same time passes in both sessions
BothPass ==
    /\ BothRunning
    /\ app.is_playing \/ twin.app.is_playing
    /\ Both("pass", "",
            [app |-> [app EXCEPT !.last_advance = Min(@ + TimeStep, MaxElapsed)],
             disk |-> disk],
            [app |-> [twin.app EXCEPT !.last_advance = Min(@ + TimeStep, MaxElapsed)],
             disk |-> twin.disk])

\* App::tick and Message::Tick
BothTick ==
    /\ BothRunning
    /\ Both("tick", tick("tui", app, disk, TRUE).res,
            tick("tui", app, disk, TRUE),
            tick("gui", twin.app, twin.disk, TRUE))

\* Left, Right (tui) and Message::PrevWord, Message::NextWord (gui)
BothSeek(dir) ==
    /\ BothRunning
    /\ Both("seek", dir,
            [app |-> IF dir = "prev" THEN prev_word(app, 1) ELSE next_word(app, 1),
             disk |-> disk],
            [app |-> IF dir = "prev" THEN prev_word(twin.app, 1)
                                     ELSE next_word(twin.app, 1),
             disk |-> twin.disk])

\* r (tui) and Message::Reset (gui)
BothReset ==
    /\ BothRunning
    /\ Both("reset", "",
            reset("tui", app, disk, TRUE),
            reset("gui", twin.app, twin.disk, TRUE))

\* Up, Down (tui) and Message::SpeedUp, Message::SpeedDown (gui)
BothRate(dir) ==
    /\ BothRunning
    /\ Both("rate", dir,
            IF dir = "up" THEN speed_up("tui", app, disk, WpmStep, TRUE)
                          ELSE speed_down("tui", app, disk, WpmStep, TRUE),
            IF dir = "up" THEN speed_up("gui", twin.app, twin.disk, WpmStep, TRUE)
                          ELSE speed_down("gui", twin.app, twin.disk, WpmStep, TRUE))
    /\ RateInWindow(app'.wpm)
    /\ RateInWindow(twin'.app.wpm)

NextTwin ==
    \/ BothStart
    \/ \E path \in {"one.txt", "two.txt", "missing.txt"}, h \in Ids :
          BothImport(path, h)
    \/ BothTogglePlay
    \/ BothPass
    \/ BothTick
    \/ \E dir \in {"prev", "next"} : BothSeek(dir)
    \/ BothReset
    \/ \E dir \in {"up", "down"} : BothRate(dir)

SpecTwin == InitTwin /\ [][NextTwin]_vars

\* The words drawn: up to MaxWordLen chars, of one byte or of more
RECURSIVE Repeat(_, _)
Repeat(c, n) == IF n = 0 THEN <<>> ELSE <<c>> \o Repeat(c, n - 1)
Words == {Repeat(c, n) : c \in {"a", "b", "e_acute"}, n \in 0..MaxWordLen}

\* ui / view draw a word with its ORP char at the focal column
Draw(word) ==
    /\ shown' = Some([word |-> word, orp |-> calculate_orp(fe, word)])
    /\ ev' = Event("draw", "", None, 0)
    /\ UNCHANGED <<file_input, hashed, twin, fe, app, disk, dialogs, faults, tampered>>

NextOrp == \E word \in Words : Draw(word)

SpecOrp == Init /\ [][NextOrp]_vars

----------------------------------------------------------------------------
(* Claims *)

\* The Library that library.json holds (the default one when there is no file)
Persisted(d) == IF d.library_file = None THEN default_library
                ELSE unwrap(d.library_file).lib
persisted == Persisted(disk)

BooksOf(library) == {library.books[i] : i \in 1..Len(library.books)}

\* C1: in every reachable state with a non-empty token sequence the cursor
\* lies in 0 .. token_count - 1.
C1_CursorInRange ==
    app.words # <<>> => (0 <= app.word_index /\ app.word_index <= Len(app.words) - 1)

\* C1 witness: a seek forward has stopped at the last token of the long book.
C1_Witness ==
    /\ ev.op = "seek"
    /\ Len(app.words) = LongLen
    /\ app.word_index = LongLen - 1

WellFormedBook(b) == b.total_words > 0 /\ 0 <= b.progress /\ b.progress < b.total_words

\* C2: while book files are written by import alone, every Book of the Library,
\* in memory and persisted, has total_words > 0 and 0 <= progress < total_words.
C2_BooksWellFormed ==
    ~tampered =>
        /\ \A b \in BooksOf(app.library) : WellFormedBook(b)
        /\ \A b \in BooksOf(persisted) : WellFormedBook(b)

HasBook(library, id) == \E b \in BooksOf(library) : b.id = id

\* C3: last_opened is absent or the id of a Book of the Library, in memory and
\* persisted.
C3_LastOpenedExists ==
    /\ app.library.last_book # None => HasBook(app.library, unwrap(app.library.last_book))
    /\ persisted.last_book # None => HasBook(persisted, unwrap(persisted.last_book))

\* C3 witness: the last opened book was deleted while another Book stays.
C3_Witness ==
    /\ ev.op = "delete"
    /\ app.library.last_book = None
    /\ app.library.books # <<>>

\* The step is a load_book call that succeeded / failed: from the library
\* browser, at start-up, or at the end of import_file
LoadOps == {"load", "start"}
Loaded(e) == (e.op \in LoadOps /\ e.res = "Loaded") \/ (e.op = "import" /\ e.res = "Imported")
LoadFailed(e) == e.op = "load" /\ e.res \in {"NotFound", "EmptyBook"}
\* the save_library at the end of that load_book went through
LoadSaved(e) == IF e.op = "import" THEN e.fail # 3 ELSE e.fail = 0

\* C4: a load that fails with NotFound or EmptyBook leaves tokens, cursor,
\* active book id and the Library, in memory and persisted, unchanged.
C4_FailedLoadKeepsSession ==
    [][LoadFailed(ev') =>
         /\ app'.words = app.words
         /\ app'.word_index = app.word_index
         /\ app'.current_book_id = app.current_book_id
         /\ app'.library = app.library
         /\ disk' = disk]_vars

\* C5 as stated: after a successful load of book_id the tokens are those of the
\* stored text, the cursor is min(stored progress, token_count - 1), book_id is
\* active, and last_opened is book_id in memory and in the persisted Library.
StoredProgress(library, id) == library.books[find(library.books, id)].progress

LoadEffect(a, d, id) ==
    /\ d.books[id] # None
    /\ a.words = tokenize_text(unwrap(d.books[id]))
    /\ HasBook(a.library, id)
    /\ a.word_index = Min(StoredProgress(a.library, id), Len(a.words) - 1)
    /\ a.current_book_id = Some(id)
    /\ a.library.last_book = Some(id)

C5_LoadPersistsLastOpened ==
    Loaded(ev) =>
        /\ LoadEffect(app, disk, unwrap(ev.id))
        /\ persisted.last_book = ev.id

\* C5 amended: the same, with last_opened in the persisted Library when the
\* save at the end of the load went through.
C5_LoadEffect ==
    Loaded(ev) =>
        /\ LoadEffect(app, disk, unwrap(ev.id))
        /\ LoadSaved(ev) => (disk.library_file # None /\ persisted.last_book = ev.id)

\* C5 witness: a load from the library browser resumed a Book at a stored
\* progress other than 0.
C5_Witness ==
    /\ ev.op = "load"
    /\ ev.res = "Loaded"
    /\ app.word_index = SaveEvery
    /\ persisted.last_book = ev.id

\* C6: right after a successful load, the load at the end of an import
\* included, the session is not playing.
C6_LoadPauses == Loaded(ev) => ~app.is_playing

AtLastIndex(a) == a.word_index = Len(a.words) - 1

\* C7 as stated: toggle_play on an empty token sequence changes neither cursor
\* nor playing flag; at the last index it sets the cursor to 0 and the session
\* plays; otherwise it inverts the playing flag and keeps the cursor.
C7_ToggleAtEndPlays ==
    [][ev'.op = "toggle_play" =>
         IF app.words = <<>>
         THEN app'.word_index = app.word_index /\ app'.is_playing = app.is_playing
         ELSE IF AtLastIndex(app)
         THEN app'.word_index = 0 /\ app'.is_playing = TRUE
         ELSE app'.word_index = app.word_index /\ app'.is_playing = ~app.is_playing]_vars

\* C7 amended: at the last index toggle_play sets the cursor to 0 and inverts
\* the playing flag, as everywhere else on a non-empty sequence.
C7_Toggle ==
    [][ev'.op = "toggle_play" =>
         IF app.words = <<>>
         THEN app'.word_index = app.word_index /\ app'.is_playing = app.is_playing
         ELSE /\ app'.is_playing = ~app.is_playing
              /\ app'.word_index = IF AtLastIndex(app) THEN 0 ELSE app.word_index]_vars

\* C7 witness: toggle_play restarted a finished long book from its first token.
C7_Witness ==
    /\ ev.op = "toggle_play"
    /\ app.is_playing
    /\ app.word_index = 0
    /\ Len(app.words) = LongLen
    /\ StoredProgress(app.library, unwrap(app.current_book_id)) = LongLen - 1

\* the time since the last advance is at least 60 / wpm seconds
DelayPassed(a) == a.last_advance * a.wpm >= 60 * 1000

\* C8: a tick while playing below the last index with the delay passed moves
\* the cursor by one and restarts the timer; a tick while paused, or before
\* the delay has passed, changes neither cursor, playing flag nor Library.
C8_TickTiming ==
    [][ev'.op = "tick" =>
         /\ (app.is_playing /\ app.words # <<>> /\ ~AtLastIndex(app) /\ DelayPassed(app))
               => (app'.word_index = app.word_index + 1 /\ app'.last_advance = 0)
         /\ (~app.is_playing \/ ~DelayPassed(app))
               => /\ app'.word_index = app.word_index
                  /\ app'.is_playing = app.is_playing
                  /\ app'.library = app.library
                  /\ disk' = disk]_vars

\* C8 witness: at 300 wpm a tick has moved the cursor from 0 to 1 (the clock is
\* read every TimeStep = 200 ms, the delay of that rate).
C8_Witness ==
    /\ ev.op = "tick"
    /\ ev.res = "Advanced"
    /\ app.wpm = DefaultWpm
    /\ app.word_index = 1
    /\ app.is_playing

Advances(a, b) == a.is_playing /\ a.words # <<>> /\ b.word_index = a.word_index + 1

\* C9 as stated: a tick that advances to a multiple of 10 leaves the active
\* Book's progress at that index in memory and in the persisted Library; a
\* tick that advances to another index leaves the Library unchanged.
C9_CheckpointPersisted ==
    [][(ev'.op = "tick" /\ Advances(app, app')) =>
         IF app'.word_index % 10 = 0
         THEN /\ StoredProgress(app'.library, unwrap(app'.current_book_id)) = app'.word_index
              /\ StoredProgress(Persisted(disk'), unwrap(app'.current_book_id)) = app'.word_index
         ELSE app'.library = app.library /\ disk' = disk]_vars

\* C9 amended: the same, with the persisted Library holding the index when the
\* save of that tick went through.
C9_Checkpoint ==
    [][(ev'.op = "tick" /\ Advances(app, app')) =>
         IF app'.word_index % 10 = 0
         THEN /\ HasBook(app'.library, unwrap(app'.current_book_id))
              /\ StoredProgress(app'.library, unwrap(app'.current_book_id)) = app'.word_index
              /\ ev'.fail = 0 =>
                   StoredProgress(Persisted(disk'), unwrap(app'.current_book_id))
                      = app'.word_index
         ELSE app'.library = app.library /\ disk' = disk]_vars

\* C9 witness: a tick has reached index 10 and the persisted Library holds it.
C9_Witness ==
    /\ ev.op = "tick"
    /\ ev.res = "Advanced"
    /\ app.word_index = SaveEvery
    /\ StoredProgress(persisted, unwrap(app.current_book_id)) = SaveEvery

\* C10: a tick with the delay passed while playing at the last index stops the
\* playback, keeps the cursor, and sets the active Book's progress to the last
\* index (in the persisted Library too when the save went through); on a
\* one-token book that leaves playing false and the cursor 0.
C10_TickAtEnd ==
    [][(ev'.op = "tick" /\ app.is_playing /\ app.words # <<>> /\ AtLastIndex(app)
          /\ DelayPassed(app)) =>
         /\ ~app'.is_playing
         /\ app'.word_index = app.word_index
         /\ app'.word_index = Len(app'.words) - 1
         /\ HasBook(app'.library, unwrap(app'.current_book_id))
         /\ StoredProgress(app'.library, unwrap(app'.current_book_id)) = app'.word_index
         /\ ev'.fail = 0 =>
              StoredProgress(Persisted(disk'), unwrap(app'.current_book_id))
                 = app'.word_index
         /\ Len(app.words) = 1 => app'.word_index = 0]_vars

\* C10 witness: the one-token book has finished at index 0.
C10_Witness ==
    /\ ev.op = "tick"
    /\ ev.res = "Finished"
    /\ Len(app.words) = 1
    /\ app.word_index = 0
    /\ ~app.is_playing
    /\ StoredProgress(app.library, unwrap(app.current_book_id)) = 0

SeekDeltas == {0 - SkipWords, 0 - 1, 1, SkipWords}

\* The key of a delta
KeyOf(delta) ==
    SeekKey(IF delta < 0 THEN "prev" ELSE "next", IF delta < 0 THEN 0 - delta ELSE delta)

clamp(x, lo, hi) == Max(lo, Min(x, hi))

\* C11: a seek by delta on a non-empty token sequence sets the cursor to
\* clamp(cursor + delta, 0, token_count - 1); every seek leaves the session
\* not playing; after a seek on an empty token sequence the cursor is 0.
C11_SeekClamps ==
    [][\A delta \in SeekDeltas :
         (ev'.op = "seek" /\ ev'.res = KeyOf(delta)) =>
            /\ ~app'.is_playing
            /\ IF app.words # <<>>
               THEN app'.word_index =
                       clamp(app.word_index + delta, 0, Len(app.words) - 1)
               ELSE app'.word_index = 0]_vars

\* C11 without its last part: the same, and a seek on an empty token sequence
\* never moves the cursor forward.
C11_SeekClampsNonEmpty ==
    [][\A delta \in SeekDeltas :
         (ev'.op = "seek" /\ ev'.res = KeyOf(delta)) =>
            /\ ~app'.is_playing
            /\ IF app.words # <<>>
               THEN app'.word_index =
                       clamp(app.word_index + delta, 0, Len(app.words) - 1)
               ELSE app'.word_index <= app.word_index]_vars

\* C12: a seek changes neither the Library in memory nor the persisted
\* Library (no Book's progress, not last_opened, not the rate).
C12_SeekKeepsLibrary ==
    [][ev'.op = "seek" =>
         /\ app'.library = app.library
         /\ disk'.library_file = disk.library_file
         /\ Persisted(disk') = Persisted(disk)]_vars

\* C12 witness: a seek has moved the cursor of the active book away from the
\* progress the Library holds for it, in memory and persisted.
C12_Witness ==
    /\ ev.op = "seek"
    /\ app.current_book_id # None
    /\ HasBook(app.library, unwrap(app.current_book_id))
    /\ HasBook(persisted, unwrap(app.current_book_id))
    /\ app.word_index = 1
    /\ StoredProgress(app.library, unwrap(app.current_book_id)) = 0
    /\ StoredProgress(persisted, unwrap(app.current_book_id)) = 0

\* The Library holds progress p for Book id
ProgressIs(library, id, p) == HasBook(library, id) /\ StoredProgress(library, id) = p

\* C13 as stated: reset sets the cursor to 0, stops playback, and with a book
\* active sets that Book's progress to 0 in memory and in the persisted Library.
C13_ResetPersists ==
    [][ev'.op = "reset" =>
         /\ app'.word_index = 0
         /\ ~app'.is_playing
         /\ app.current_book_id # None =>
              /\ ProgressIs(app'.library, unwrap(app.current_book_id), 0)
              /\ ProgressIs(Persisted(disk'), unwrap(app.current_book_id), 0)]_vars

\* C13 amended: the same, with the progress 0 in the persisted Library when
\* the write of the library file went through.
C13_Reset ==
    [][ev'.op = "reset" =>
         /\ app'.word_index = 0
         /\ ~app'.is_playing
         /\ app'.current_book_id = app.current_book_id
         /\ app.current_book_id # None =>
              /\ ProgressIs(app'.library, unwrap(app.current_book_id), 0)
              /\ ev'.fail = 0 =>
                   ProgressIs(Persisted(disk'), unwrap(app.current_book_id), 0)]_vars

\* C13 witness: a reset of the long book went through to the library file.
C13_Witness ==
    /\ ev.op = "reset"
    /\ ev.fail = 0
    /\ ev.id # None
    /\ Len(app.words) = LongLen
    /\ ProgressIs(app.library, unwrap(ev.id), 0)
    /\ ProgressIs(persisted, unwrap(ev.id), 0)

\* C14: after every rate change the session rate lies in MinWpm .. MaxWpm,
\* whatever the rate was before, a rate read from library.json at start-up
\* included.
RateInRange(wpm) == ~u32_lt(wpm, MinWpm) /\ ~u32_lt(MaxWpm, wpm)

C14_RateInRange ==
    [][ev'.op = "rate" => RateInRange(app'.wpm)]_vars

\* C14 for a rate that was in range before the change
C14_RateStaysInRange ==
    [][(ev'.op = "rate" /\ RateInRange(app.wpm)) => RateInRange(app'.wpm)]_vars

\* What a rate change leaves alone in memory: the Books, last_opened, the
\* cursor and the playing flag.
RateFrame ==
    /\ app'.library.books = app.library.books
    /\ app'.library.last_book = app.library.last_book
    /\ app'.word_index = app.word_index
    /\ app'.is_playing = app.is_playing

C16_QuitSaves ==
    [][(ev'.op = "quit" /\ app.current_book_id # None) =>
          ProgressIs(Persisted(disk'), unwrap(app.current_book_id), app.word_index)]_vars

\* C16 for the terminal front-end, when the write of the library file at the
\* exit went through
C16_TuiQuitSaves ==
    [][(ev'.op = "quit" /\ app.current_book_id # None /\ fe = "tui" /\ ev'.fail = 0) =>
          ProgressIs(Persisted(disk'), unwrap(app.current_book_id), app.word_index)]_vars

\* C16 for the desktop front-end: violated
C16_GuiQuitSaves ==
    [][(ev'.op = "quit" /\ app.current_book_id # None /\ fe = "gui") =>
          ProgressIs(Persisted(disk'), unwrap(app.current_book_id), app.word_index)]_vars

\* The step is a successful load or import that replaces the active book
\* with another one
Switches ==
    /\ Loaded(ev')
    /\ app.current_book_id # None
    /\ app.current_book_id # ev'.id

\* C17: when a successful load or import replaces the active book with
\* another, the replaced Book's progress in the Library is the cursor the
\* session had for it right before the switch.
C17_SwitchFlushes ==
    [][Switches =>
          ProgressIs(app'.library, unwrap(app.current_book_id), app.word_index)]_vars

\* C17 turned round: a switch leaves the replaced Book's progress in the
\* Library as it was before the switch.
C17_SwitchKeepsProgress ==
    [][Switches =>
          /\ HasBook(app.library, unwrap(app.current_book_id))
          /\ ProgressIs(app'.library, unwrap(app.current_book_id),
                        StoredProgress(app.library, unwrap(app.current_book_id)))]_vars

\* The files whose text is empty or white space alone
BlankPaths == {path \in Paths : SourceFile(path) # None
                               /\ \A i \in 1..Len(unwrap(SourceFile(path))) :
                                     unwrap(SourceFile(path))[i] \in WhiteSpace}

\* C18: import of a file whose text is empty or white space alone fails with
\* EmptyBook, whatever the hash and the state of the file system, and leaves
\* the Library, the book files, the library file and the session's tokens,
\* cursor and active book id unchanged.
C18_EmptyImportFails ==
    [][/\ \A path \in BlankPaths, h \in Ids, w \in 0..3 :
            import_file(fe, app, disk, path, h, w)
               = [app |-> app, disk |-> disk, res |-> "EmptyBook"]
       /\ (ev'.op = "import" /\ ev'.res = "EmptyBook") =>
            /\ app'.library = app.library
            /\ disk' = disk
            /\ app'.words = app.words
            /\ app'.word_index = app.word_index
            /\ app'.current_book_id = app.current_book_id]_vars

\* C18 witness: an import failed with EmptyBook while the long book was
\* active at a cursor other than 0.
C18_Witness ==
    /\ ev.op = "import"
    /\ ev.res = "EmptyBook"
    /\ app.current_book_id # None
    /\ Len(app.words) = LongLen
    /\ app.word_index = 1
    /\ app.library.books # <<>>

\* What a successful import of a text with the tokens of app'.words, under
\* the id ev'.id, does to the Library and the session
ImportEffect ==
    /\ app'.library.books =
          Append(app.library.books,
                 [id |-> unwrap(ev'.id), total_words |-> Len(app'.words), progress |-> 0])
    /\ app'.words # <<>>
    /\ app'.words = tokenize_text(unwrap(disk'.books[unwrap(ev'.id)]))
    /\ app'.current_book_id = ev'.id
    /\ app'.word_index = 0
    /\ app'.library.last_book = ev'.id

\* C19: a successful import appends one Book at the end of the book list,
\* with progress 0 and total_words the token count of the imported text,
\* leaves the other Books and their order unchanged, and makes the new book
\* the active one with cursor 0 and last_opened its id.
C19_ImportAppends ==
    [][(ev'.op = "import" /\ ev'.res = "Imported") => ImportEffect]_vars

\* C19 for an import whose id no Book of the Library has yet
C19_FreshImportAppends ==
    [][(ev'.op = "import" /\ ev'.res = "Imported"
          /\ ~HasBook(app.library, unwrap(ev'.id))) => ImportEffect]_vars

\* C20: no two Books of the Library, in memory and persisted, have the same id.
UniqueIds(library) ==
    \A i, j \in 1..Len(library.books) :
       library.books[i].id = library.books[j].id => i = j

C20_UniqueIds == UniqueIds(app.library) /\ UniqueIds(persisted)

\* The Empty session: no tokens, cursor 0, not playing, no active book
EmptySession(a) ==
    /\ a.words = <<>>
    /\ a.word_index = 0
    /\ ~a.is_playing
    /\ a.current_book_id = None

\* The operations that flush progress
FlushOps == {"tick", "seek", "reset", "quit"}

\* C21: a confirmed delete of the active book leaves the session Empty and no
\* Book of that id in the Library; and while no book is active, no tick, seek,
\* reset or exit changes the Library in memory or any file, so none of them
\* writes progress for the deleted id.
C21_DeleteActiveEmpties ==
    [][/\ (ev'.op = "delete" /\ app.current_book_id = ev'.id) =>
            /\ EmptySession(app')
            /\ ~HasBook(app'.library, unwrap(ev'.id))
       /\ (ev'.op \in FlushOps /\ app.current_book_id = None) =>
            /\ disk' = disk
            /\ app'.current_book_id = None
            /\ app'.mode # "Off" => app'.library = app.library]_vars

\* C21 witness: the active book was deleted with another Book left in the
\* Library, and a reset came after it.
C21_Witness ==
    /\ ev.op = "reset"
    /\ EmptySession(app)
    /\ app.library.books # <<>>
    /\ app.library.last_book = None

\* The Books of other ids, in their order
OtherBooks(books, id) == SelectSeq(books, LAMBDA b : b.id # id)

\* The session proper: tokens, cursor, playing flag and active book id
Session(a) == <<a.words, a.word_index, a.is_playing, a.current_book_id>>

NoLibraryDocument(f, d) ==
    d.library_file = None \/ unwrap(d.library_file).fmt # f

\* C23: a start-up that finds library.json missing or unparsable goes on with
\* the default Library (no Book, no last_opened, rate 300) and the Empty,
\* paused session in the Reading mode, and leaves every file as it is.
C23_DefaultLibrary ==
    [][(ev'.op = "start" /\ NoLibraryDocument(fe, disk)) =>
          /\ app'.library = [books |-> <<>>, last_book |-> None, wpm |-> DefaultWpm]
          /\ app'.wpm = DefaultWpm
          /\ EmptySession(app')
          /\ app'.mode = "Reading"
          /\ disk' = disk]_vars

\* C23 witness: the process has started on the other front-end's document,
\* which lists a Book, with the default Library.
C23_Witness ==
    /\ ev.op = "start"
    /\ disk.library_file # None
    /\ unwrap(disk.library_file).fmt # fe
    /\ unwrap(disk.library_file).lib.books # <<>>
    /\ app.library.books = <<>>
    /\ app.mode = "Reading"

\* library.json holds the document of front-end f for this Library
Saved(f, d, library) ==
    d.library_file = Some([fmt |-> f, lib |-> library])

\* The Library with the cursor written into the first Book of the active id
WithProgress(a) ==
    IF a.current_book_id # None /\ HasBook(a.library, unwrap(a.current_book_id))
    THEN [a.library EXCEPT
            !.books[find(a.library.books, unwrap(a.current_book_id))].progress =
                a.word_index]
    ELSE a.library

SameButUnsaved(r, rt, d) ==
    /\ r.app = rt.app
    /\ r.disk.library_file = d.library_file
    /\ r.disk.books = rt.disk.books

\* C25: in every state, each operation whose write of library.json fails
\* ends with the App it ends with when the write goes through (tick,
\* save_progress, reset, the rate changes, load_book, delete_book); after a
\* tick that advanced and could not write its checkpoint the session plays
\* on, and no failed write has ended the process.
C25_FailedSaveInvisible ==
    /\ SameButUnsaved(tick(fe, app, disk, FALSE), tick(fe, app, disk, TRUE), disk)
    /\ SameButUnsaved(save_progress(fe, app, disk, FALSE),
                      save_progress(fe, app, disk, TRUE), disk)
    /\ SameButUnsaved(reset(fe, app, disk, FALSE), reset(fe, app, disk, TRUE), disk)
    /\ SameButUnsaved(speed_up(fe, app, disk, WpmStep, FALSE),
                      speed_up(fe, app, disk, WpmStep, TRUE), disk)
    /\ SameButUnsaved(speed_down(fe, app, disk, WpmStep, FALSE),
                      speed_down(fe, app, disk, WpmStep, TRUE), disk)
    /\ \A id \in Ids :
         /\ SameButUnsaved(load_book(fe, app, disk, id, FALSE),
                           load_book(fe, app, disk, id, TRUE), disk)
         /\ SameButUnsaved(delete_book(app, disk, id, FALSE),
                           delete_book(app, disk, id, TRUE), disk)
    /\ (ev.op = "tick" /\ ev.res = "Advanced" /\ ev.fail # 0) => app.is_playing
    /\ (ev.fail # 0 /\ ev.op # "quit") => app.mode # "Off"

\* C25 witness: a tick went on playing at the checkpoint it could not write.
C25_Witness ==
    /\ ev.op = "tick"
    /\ ev.res = "Advanced"
    /\ ev.fail # 0
    /\ app.is_playing
    /\ app.word_index = SaveEvery
    /\ ProgressIs(app.library, unwrap(app.current_book_id), SaveEvery)
    /\ ~ProgressIs(persisted, unwrap(app.current_book_id), SaveEvery)

\* The table of the ORP offsets by character count
OrpTable(len) ==
    CASE len \in 0..1   -> 0
      [] len \in 2..5   -> 1
      [] len \in 6..9   -> 2
      [] len \in 10..13 -> 3
      [] OTHER          -> 4

\* C26: the offset drawn for a word is the one the table gives for its
\* character count; over all words the offset of either front-end is in
\* 0..4, not greater than the length, non-decreasing in the length, and the
\* same in both front-ends.
C26_OrpTable ==
    /\ shown # None => unwrap(shown).orp = OrpTable(Len(unwrap(shown).word))
    /\ \A w \in Words :
         /\ tui_calculate_orp(w) = OrpTable(Len(w))
         /\ gui_calculate_orp(w) = tui_calculate_orp(w)
         /\ tui_calculate_orp(w) \in 0..4
         /\ tui_calculate_orp(w) <= Len(w)
         /\ \A v \in Words :
              Len(v) <= Len(w) => tui_calculate_orp(v) <= tui_calculate_orp(w)

\* C26 witness: a word of 14 chars was drawn with the offset 4.
C26_Witness ==
    /\ shown # None
    /\ Len(unwrap(shown).word) = 14
    /\ unwrap(shown).orp = 4

RECURSIVE Flatten(_)
\* The chars of the tokens, in order
Flatten(words) ==
    IF words = <<>> THEN <<>> ELSE Head(words) \o Flatten(Tail(words))

RECURSIVE Join(_)
\* The tokens joined with single spaces
Join(words) ==
    IF words = <<>> THEN <<>>
    ELSE IF Len(words) = 1 THEN Head(words)
    ELSE Head(words) \o <<" ">> \o Join(Tail(words))

IsWhite(c) == c \in WhiteSpace
IsBlack(c) == c \notin WhiteSpace

\* The places of the text where a run of chars other than white space starts
RunStarts(text) ==
    {i \in 1..Len(text) :
        IsBlack(text[i]) /\ (i = 1 \/ IsWhite(text[i - 1]))}

\* The text of the active book, as the session was started from it
StartedFrom(text) ==
    /\ ev.op = "start"
    /\ ev.res \in {"Loaded", "EmptyBook"}
    /\ disk.books[1] = Some(text)

\* C27: the tokens of a text are non-empty and free of white space, they are
\* the runs of the text in its order (none for a text that is empty or all
\* white space), and the tokens joined with single spaces tokenize to the
\* same tokens.
C27_Tokenize ==
    \A text \in Texts :
        StartedFrom(text) =>
            /\ \A i \in 1..Len(app.words) :
                 /\ app.words[i] # <<>>
                 /\ \A j \in 1..Len(app.words[i]) : IsBlack(app.words[i][j])
            /\ Flatten(app.words) = SelectSeq(text, IsBlack)
            /\ Len(app.words) = Cardinality(RunStarts(text))
            /\ (SelectSeq(text, IsBlack) = <<>>) => app.words = <<>>
            /\ tokenize_text(Join(app.words)) = app.words

\* C27 witness: a session started from a text with a run of two white-space
\* chars between two words.
C27_Witness ==
    /\ StartedFrom(<<"a", " ", "\n", "b">>)
    /\ app.words = << <<"a">>, <<"b">> >>

\* C28: from any rate stored in the persisted library, no toggle_play, tick
\* or rate change ends the process with a panic.
C28_NoPanic == ev.op # "panic"

\* The delays of the rate that have passed since the last advance
DelaysPassed(a) == (a.last_advance * a.wpm) \div MsPerMinute

\* C29: a tick moves the cursor forward by one token at most, however many
\* delays have passed since the last advance, and a tick that follows, with
\* no time passed, a tick that advanced or finished changes neither the
\* session nor the disk.
C29_NoCatchUp ==
    [][ev'.op = "tick" =>
         /\ app'.word_index \in {app.word_index, app.word_index + 1}
         /\ (app.is_playing /\ DelaysPassed(app) >= 2 /\ ~AtLastIndex(app))
                => app'.word_index = app.word_index + 1
         /\ (ev.op = "tick" /\ ev.res \in {"Advanced", "Finished"})
                => /\ ev'.res \in {"Waiting", "Idle"}
                   /\ UNCHANGED <<app, disk, dialogs, faults, tampered>>]_vars

\* C29 witness: a tick finds the delay not passed at the instant of the
\* last advance, past the first word.
C29_Witness ==
    /\ ev.op = "tick"
    /\ ev.res = "Waiting"
    /\ app.is_playing
    /\ app.last_advance = 0
    /\ app.word_index > 0

\* What the two engines are compared by
Engine(a) ==
    [words |-> a.words, word_index |-> a.word_index, is_playing |-> a.is_playing,
     wpm |-> a.wpm, current_book_id |-> a.current_book_id, library |-> a.library]

BothOps == {"start", "import", "toggle_play", "tick", "seek", "reset", "rate"}

\* C30: after every operation that both sessions carried out, started from
\* the same files, the terminal engine and the desktop engine have the same
\* tokens, cursor, playing flag, rate, active book id and Library.
C30_EnginesAgree ==
    (ev.op \in BothOps /\ twin.app.mode # "Off") => Engine(app) = Engine(twin.app)

\* The same, of sessions started with no library file and of imports made
\* while the session is paused
C30_AgreeFromNoFiles ==
    [][(/\ ev'.op \in BothOps
        /\ twin'.app.mode # "Off"
        /\ ev'.op = "start" => disk.library_file = None
        /\ ev'.op = "import" => ~twin.app.is_playing
        /\ ev'.op # "start" => Engine(app) = Engine(twin.app))
       => Engine(app') = Engine(twin'.app)]_vars

\* The outcomes of an import that an I/O error ends: the source path was not
\* read, or the book file was not written
IoFailures == {"IoError", "WriteFailed"}

\* C31: an import that fails with an I/O error, on reading the source path
\* or on writing the book file, changes neither the Library (books,
\* last_book, rate) nor the session's tokens, cursor, playing flag and active
\* book id.
C31_FailedImportChangesNothing ==
    [][(ev'.op = "import" /\ ev'.res \in IoFailures) =>
          /\ app'.library = app.library
          /\ Session(app') = Session(app)
          /\ app'.wpm = app.wpm]_vars

\* C31 witness: the write of the book file failed in a session that has a
\* book loaded.
C31_Witness ==
    /\ ev.op = "import"
    /\ ev.res = "WriteFailed"
    /\ app.words # <<>>
    /\ app.current_book_id # None

\* Playback has stopped at the last token with the progress recorded
StoppedAtEnd(a) ==
    /\ a.mode # "Off"
    /\ ~a.is_playing
    /\ AtLastIndex(a)
    /\ a.current_book_id # None
    /\ ProgressIs(a.library, unwrap(a.current_book_id), Len(a.words) - 1)

\* C32: a session that is playing, with ticks and time going on and nothing
\* else, eventually stops with the playing flag false, the cursor at the
\* last token and the active Book's progress at the last index.
C32_PlaybackStops == app.is_playing ~> StoppedAtEnd(app)

\* The same of the sessions whose rate is not 0
C32_PlaybackStopsAtRate == (app.is_playing /\ app.wpm # 0) ~> StoppedAtEnd(app)

\* C33: the session has an active book id exactly when its token sequence is
\* not empty, and an empty token sequence comes with the cursor 0, the
\* playing flag false and no active book.
C33_ActiveIffTokens ==
    app.mode # "Off" =>
        /\ (app.current_book_id # None) <=> (app.words # <<>>)
        /\ app.words = <<>> =>
              (app.word_index = 0 /\ ~app.is_playing /\ app.current_book_id = None)

\* Tokens never come without an active book
C33_TokensHaveBook ==
    (app.mode # "Off" /\ app.words # <<>>) => app.current_book_id # None

\* A book is active, being read, and a Book of the Library
Reading(a) ==
    /\ a.mode # "Off"
    /\ a.words # <<>>
    /\ a.current_book_id # None
    /\ HasBook(a.library, unwrap(a.current_book_id))

\* The tokens by which the active Book's stored progress trails the cursor
Trail(a) == a.word_index - StoredProgress(a.library, unwrap(a.current_book_id))

\* The step loaded the active book or flushed its progress
LoadedOrFlushed(e, a) ==
    \/ Loaded(e)
    \/ e.op = "reset"
    \/ e.op = "tick" /\ e.res = "Finished"
    \/ e.op = "tick" /\ e.res = "Advanced" /\ a.word_index % SaveEvery = 0

\* No seek has moved the cursor since the active book was loaded or its
\* progress flushed: the cursor has passed no index at which tick flushes
Unsought(a) ==
    /\ Reading(a)
    /\ \A k \in 1..Len(a.words) :
         (k % SaveEvery = 0 /\ k <= a.word_index)
            => k <= StoredProgress(a.library, unwrap(a.current_book_id))

\* C34: a load and a flush leave the cursor not ahead of the stored progress;
\* from there every step but a seek keeps the cursor short of the next
\* index at which tick flushes; and in every such state the stored progress
\* trails the cursor by 9 tokens at most.
C34_ProgressTrail ==
    [][/\ (LoadedOrFlushed(ev', app') /\ Reading(app'))
            => (Trail(app') <= 0 /\ Unsought(app'))
       /\ (Unsought(app) /\ ev'.op # "seek" /\ Reading(app')) => Unsought(app')
       /\ Unsought(app') => Trail(app') <= SaveEvery - 1]_vars

\* C34 witness: the book is played 9 tokens past its stored progress.
C34_Witness ==
    /\ ev.op = "tick"
    /\ app.is_playing
    /\ Unsought(app)
    /\ Trail(app) = SaveEvery - 1

\* The ids of the Books of a Library
IdsOf(library) == {b.id : b \in BooksOf(library)}

\* C35: a front-end that starts from a library document, whichever front-end
\* saved it, has the document's book list, last_opened id and rate; and no
\* step but a delete drops a Book from the persisted Library.
C35_SharedDocument ==
    [][/\ (ev'.op = "start" /\ disk.library_file # None)
            => /\ app'.library.books = Persisted(disk).books
               /\ app'.library.last_book = Persisted(disk).last_book
               /\ app'.library.wpm = Persisted(disk).wpm
       /\ ev'.op # "delete" => IdsOf(Persisted(disk)) \subseteq IdsOf(Persisted(disk'))]_vars

\* The same of a document that the starting front-end saved itself
C35_OwnDocument ==
    [][(disk.library_file # None => unwrap(disk.library_file).fmt = fe)
        => /\ (ev'.op = "start" /\ disk.library_file # None)
                => /\ app'.library.books = Persisted(disk).books
                   /\ app'.library.last_book = Persisted(disk).last_book
                   /\ app'.library.wpm = Persisted(disk).wpm
           /\ ev'.op # "delete"
                => IdsOf(Persisted(disk)) \subseteq IdsOf(Persisted(disk'))]_vars

\* A step of a running terminal session
TuiStep == fe = "tui" /\ app.mode # "Off" /\ app'.mode # "Off"

\* The step takes a Book out of the Library
Removes == Len(app'.library.books) < Len(app.library.books)

\* The Book that the Confirm dialog names when d opens it: the active book
\* in the Reading mode, the selected one in the Library mode
Named(a) == IF a.mode = "Reading" THEN a.current_book_id ELSE Selected(a)

\* The dialog keeps the Book named at its opening until it is left, and n or
\* Esc leaves it with the Library, the files and the session as they were
ConfirmDialog ==
    /\ (app.mode # "Confirm" /\ app'.mode = "Confirm")
          => (Named(app) # None /\ app'.confirm_action = Named(app))
    /\ (app.mode = "Confirm" /\ app'.mode = "Confirm")
          => app'.confirm_action = app.confirm_action
    /\ (app.mode = "Confirm" /\ ev'.op = "ui")
          => /\ app'.library = app.library
             /\ disk' = disk
             /\ Session(app') = Session(app)

\* C36: in the terminal front-end only y in the Confirm dialog takes a Book
\* out of the Library, and it takes out the one Book named when the dialog
\* was opened; n or Esc leaves the Library and the session's tokens, cursor
\* and active book id unchanged.
C36_ConfirmedDelete ==
    [][TuiStep =>
         /\ ConfirmDialog
         /\ Removes =>
               /\ ev'.op = "delete"
               /\ app.mode = "Confirm"
               /\ app.confirm_action # None
               /\ app'.library.books = OtherBooks(app.library.books, unwrap(app.confirm_action))
               /\ Len(app'.library.books) = Len(app.library.books) - 1]_vars

\* The same, the Books taken out being all those of the id named
C36_ConfirmedDeleteById ==
    [][TuiStep =>
         /\ ConfirmDialog
         /\ Removes =>
               /\ ev'.op = "delete"
               /\ app.mode = "Confirm"
               /\ app.confirm_action # None
               /\ app'.library.books = OtherBooks(app.library.books, unwrap(app.confirm_action))]_vars

\* C37: the id made of a hash value is the first 12 chars of the hash's
\* lowercase hex rendering, 12 chars long, and making it never panics.
C37_BookIdOfHash ==
    hashed # None =>
        /\ unwrap(hashed).id # None
        /\ Len(unwrap(unwrap(hashed).id)) = IdLen
        /\ unwrap(unwrap(hashed).id) =
              SubSeq(LowerHex(unwrap(hashed).hash), 1, IdLen)
        /\ ev.op # "panic"

\* The same of the hash values of 12 hex digits or more, that is from 2^44 on
C37_BookIdOfLongHash ==
    (hashed # None /\ Len(LowerHex(unwrap(hashed).hash)) >= IdLen) =>
        /\ unwrap(hashed).id # None
        /\ Len(unwrap(unwrap(hashed).id)) = IdLen
        /\ unwrap(unwrap(hashed).id) =
              SubSeq(LowerHex(unwrap(hashed).hash), 1, IdLen)
        /\ \A i \in 1..IdLen :
              \E d \in 1..Len(HexDigit) : unwrap(unwrap(hashed).id)[i] = HexDigit[d]

\* The terminal session is in the import-path field
InField == fe = "tui" /\ app.mode = "FileInput"

InputPanicked == ev = Event("panic", "file_input", None, 0)

\* C38: after any sequence of chars typed, Backspace, Delete, Left, Right,
\* Home and End in the import-path field the cursor is within 0..byte length
\* of the text and on a char boundary of it, for chars of any width, and no
\* edit panics.
C38_CursorOnBoundary ==
    /\ ~InputPanicked
    /\ InField =>
          /\ file_input.cursor \in 0..ByteLen(file_input.text)
          /\ is_char_boundary(file_input.text, file_input.cursor)

\* The part that holds of chars of any width: the cursor is within 0..byte
\* length of the text
C38_CursorInRange ==
    InField => file_input.cursor \in 0..ByteLen(file_input.text)

\* The part that holds of texts of one-byte chars: the cursor is on a char
\* boundary and no key panics on the field
C38_OneByteChars ==
    (InField /\ \A i \in 1..Len(file_input.text) : len_utf8(file_input.text[i]) = 1) =>
        /\ is_char_boundary(file_input.text, file_input.cursor)
        /\ \A key \in InputKeys : ~key_panics(file_input, key)

====
